---- MODULE Spec2Model ----
(***************************************************************************)
(* Model of the chat backend of src/apps/core: the message store           *)
(* (ChatRepository over the chats / messages tables) and the streaming     *)
(* turn AIService.stream_ai_response, an async generator that reads the    *)
(* history, persists the user message, calls the completion provider,      *)
(* frames the provider's deltas for the caller and persists the AI         *)
(* message.  Further specifications over the same state cover the          *)
(* single-shot AIService.generate_ai_response (SpecGenerate), a turn on a  *)
(* chat with a long history (SpecHistory), chat creation and deletion      *)
(* with the store's clock (SpecStore), two concurrent turns (SpecConc),    *)
(* the turns as the event loop schedules them (SpecLive), every branch of  *)
(* ChatService (SpecCrud), the user accounts of AuthService, UserService   *)
(* and the login endpoint (SpecUsers), the emission of a stream that also  *)
(* holds empty deltas (SpecEmit) and POST /chat with process_chat_stream   *)
(* (SpecChat).                                                             *)
(*                                                                         *)
(* Text is a sequence of one-character strings, so that concatenation,     *)
(* len() and json.dumps() are computed character by character.             *)
(***************************************************************************)
EXTENDS Integers, Sequences, FiniteSets, TLC

VARIABLES
    chats,              \* ids of the rows of table "chats"
    messages,           \* rows of table "messages", in commit order
    pc,                 \* per turn: position of the generator
    chat_id,            \* per turn: argument chat_id
    message_content,    \* per turn: argument message_content
    protocol,           \* per turn: argument protocol
    chat_history,       \* per turn: local chat_history (role-tagged list)
    complete_response,  \* per turn: local complete_response (accumulator)
    out,                \* per turn: chunks handed to the caller so far
    received,           \* per turn: chunks the provider stream has yielded
    H0,                 \* per turn: the chat's stored rows when the turn read them
    alone,              \* per turn: nobody else wrote to the chat since then
    repeat,             \* per turn: same arguments as the completed turn before it
    log,                \* per turn: the steps the turn has taken, in order
    session,            \* per turn: the store session of the request
    now,                \* the clock of the store (func.now())
    created_at,         \* column created_at of the rows of "messages"
    updated_at,         \* column updated_at of the rows of "chats"
    title,              \* column title of the rows of "chats"
    users,              \* the rows of table "users", in insertion order
    response,           \* what the last ChatService/AuthService call answered
    registered          \* the records that register_user has returned so far

vars == <<chats, messages, pc, chat_id, message_content, protocol,
          chat_history, complete_response, out, received, H0, alone, repeat, log,
          session, now, created_at, updated_at, title, users, response,
          registered>>

\* the state of the user accounts
userVars == <<users, registered>>

turnVars == <<pc, chat_id, message_content, protocol, chat_history,
              complete_response, out, received, H0, alone, repeat, log, session>>

(* ------------------------------ bounds --------------------------------- *)

MaxMsgs == 4        \* rows of table "messages"
MaxChunks == 2      \* chunks one provider stream yields

(* ---------------------------- input sets ------------------------------- *)

Turns == {"t1"}
ChatIds == {"c1", "c2"}
UserTexts == {<<"u">>}
Protocols == {"text", "data", "json"}

\* payloads of POST /messages/
CrudPayloads == {[content |-> <<"h">>, is_from_ai |-> TRUE]}

\* delta.content of a provider chunk: one character that json.dumps escapes,
\* and a text of ten characters ending in a newline
DeltaTexts ==
    {<<"\"">>, <<"I", "'", "m", " ", "f", "i", "n", "e", ".", "\n">>}

\* A chunk of the provider stream: chunk.choices may be empty (content is
\* then not looked at); otherwise chunk.choices[0].delta.content is a string.
ProviderChunks ==
    {[choices |-> FALSE, content |-> <<>>]}
    \cup {[choices |-> TRUE, content |-> d] : d \in DeltaTexts}

(* ------------------------------ helpers -------------------------------- *)

RECURSIVE Flatten(_)
Flatten(ss) == IF ss = <<>> THEN <<>> ELSE Head(ss) \o Flatten(Tail(ss))

\* bool stored in an Integer column
BoolToInt(b) == IF b THEN 1 ELSE 0

DefaultLimit == 50

DigitChars == <<"0", "1", "2", "3", "4", "5", "6", "7", "8", "9">>

\* str(n) of a non-negative int, as the f-string formats len(...)
RECURSIVE IntToStr(_)
IntToStr(n) ==
    IF n < 10 THEN <<DigitChars[n + 1]>>
    ELSE IntToStr(n \div 10) \o <<DigitChars[(n % 10) + 1]>>

\* a plausible slip: the delta is put between quotes without escaping
json_escape_raw(c) == <<c>>

\* json.dumps of one character of a str (ensure_ascii escapes)
json_escape(c) ==
    CASE c = "\"" -> <<"\\", "\"">>
      [] c = "\\" -> <<"\\", "\\">>
      [] c = "\n" -> <<"\\", "n">>
      [] OTHER    -> <<c>>

RECURSIVE json_escape_all(_)
json_escape_all(s) ==
    IF s = <<>> THEN <<>> ELSE json_escape(Head(s)) \o json_escape_all(Tail(s))

\* json.dumps(content) for a str
json_dumps(s) == <<"\"">> \o json_escape_all(s) \o <<"\"">>

\* f"0:{json.dumps(content)}\n"
DataLine(content) == <<"0", ":">> \o json_dumps(content) \o <<"\n">>

FinishPrefix ==
    <<"d", ":", "{", "\"", "f", "i", "n", "i", "s", "h", "R", "e", "a", "s",
      "o", "n", "\"", ":", "\"", "s", "t", "o", "p", "\"", ",", "\"", "u", "s",
      "a", "g", "e", "\"", ":", "{", "\"", "p", "r", "o", "m", "p", "t", "T",
      "o", "k", "e", "n", "s", "\"", ":", "0", ",", "\"", "c", "o", "m", "p",
      "l", "e", "t", "i", "o", "n", "T", "o", "k", "e", "n", "s", "\"", ":">>

FinishSuffix == <<"}", "}", "\n">>

\* f'd:{{"finishReason":"stop","usage":{{"promptTokens":0,"completionTokens":{len(complete_response)}}}}}\n'
FinishLine(resp) == FinishPrefix \o IntToStr(Len(resp)) \o FinishSuffix

(* ------------------------------ the store ------------------------------ *)

SelectRows(rows, c) == SelectSeq(rows, LAMBDA m : m.chat_id = c)

\* All stored rows of a chat, oldest first: created_at is the time of the
\* insert, so the order by created_at is the order of the commits.
ChatMessages(c) == SelectRows(messages, c)

\* ChatRepository.get_messages_by_chat: filter, order, offset, limit
get_messages_by_chat(c, skip, limit) ==
    LET rows == ChatMessages(c)
        last == IF skip + limit < Len(rows) THEN skip + limit ELSE Len(rows)
    IN  SubSeq(rows, skip + 1, last)

\* AIService.get_chat_history: role-tagged copy of the stored messages
get_chat_history(c) ==
    LET rows == get_messages_by_chat(c, 0, DefaultLimit)
    IN  [i \in 1..Len(rows) |->
            [role |-> IF rows[i].is_from_ai = 1 THEN "assistant" ELSE "user",
             content |-> rows[i].content]]

\* the row Message(**message_data) of ChatRepository.create_message
NewRow(c, content, fromAi) ==
    [chat_id |-> c, content |-> content, is_from_ai |-> BoolToInt(fromAi)]

\* a plausible slip: the row is not added when the chat holds an equal one
create_message_dedup(rows, c, content, fromAi) ==
    IF \E i \in 1..Len(rows) : rows[i] = NewRow(c, content, fromAi)
    THEN rows
    ELSE Append(rows, NewRow(c, content, fromAi))

\* a plausible slip: the rows are kept newest first
create_message_prepend(rows, c, content, fromAi) ==
    <<NewRow(c, content, fromAi)>> \o rows

\* ChatRepository.create_message: add the row and commit
create_message(rows, c, content, fromAi) == Append(rows, NewRow(c, content, fromAi))

\* created_at of the new row: server_default=func.now(), taken at the INSERT
stamp(times) == Append(times, now)

\* chat = self.get_chat(chat_id); if chat: self.db.merge(chat).  The chat is
\* the instance the session holds already and no attribute of it was set, so
\* merge copies nothing, the commit issues no UPDATE of the chat's row and
\* onupdate=func.now() does not run: the column keeps its value.
merge_chat(upd, c) == upd

(* ---------------------- bookkeeping of the model ----------------------- *)

Terminal == {"done", "error", "cancelled"}

\* writes a turn at this position may still make
Pending(p) ==
    CASE p \in {"read", "write_user"} -> 2
      [] p \in {"call", "loop", "yielded", "yielded_final", "write_ai"} -> 1
      [] p \in {"g_read", "g_call", "g_write_ai"} -> 1
      [] OTHER -> 0

RECURSIVE SumPending(_)
SumPending(S) ==
    IF S = {} THEN 0
    ELSE LET t == CHOOSE x \in S : TRUE
         IN  Pending(pc[t]) + SumPending(S \ {t})

Room == MaxMsgs - Len(messages) - SumPending(DOMAIN pc)

\* a commit by somebody else on chat c is seen by every turn working on c
Disturb(c, self) ==
    [t \in DOMAIN alone |->
        IF t # self /\ pc[t] # "idle" /\ chat_id[t] = c THEN FALSE ELSE alone[t]]

(* -------------------------------- Init --------------------------------- *)

\* Chat.title is nullable and ChatCreate/ChatUpdate default it to None
NoTitle == "None"

\* the title the service shows: chat.title, or "Chat <id>" when it is None
ShownTitle(ti, c) == IF ti = NoTitle THEN <<"Chat", c>> ELSE <<ti>>

\* no call has been answered yet
NoResponse == [op |-> "none", target |-> "none", status |-> 0, detail |-> "",
               body |-> <<>>]

\* the call returned its value normally
Returned(op, target, body) ==
    [op |-> op, target |-> target, status |-> 200, detail |-> "", body |-> body]

\* the call raised HTTPException(status_code, detail)
HTTPException(op, target, status_code, detail) ==
    [op |-> op, target |-> target, status |-> status_code, detail |-> detail,
     body |-> <<>>]


\* one chat has been created, no message yet; no request is being served
Init ==
    /\ chats = {"c1"}
    /\ messages = <<>>
    /\ pc = [t \in Turns |-> "idle"]
    /\ chat_id = [t \in Turns |-> "c1"]
    /\ message_content = [t \in Turns |-> <<>>]
    /\ protocol = [t \in Turns |-> "data"]
    /\ chat_history = [t \in Turns |-> <<>>]
    /\ complete_response = [t \in Turns |-> <<>>]
    /\ out = [t \in Turns |-> <<>>]
    /\ received = [t \in Turns |-> <<>>]
    /\ H0 = [t \in Turns |-> <<>>]
    /\ alone = [t \in Turns |-> TRUE]
    /\ repeat = [t \in Turns |-> FALSE]
    /\ log = [t \in Turns |-> <<>>]
    /\ session = [t \in Turns |-> "none"]
    /\ now = 0
    /\ created_at = <<>>
    /\ updated_at = [c \in {"c1"} |-> 0]
    /\ title = [c \in {"c1"} |-> NoTitle]
    /\ users = <<>>
    /\ response = NoResponse
    /\ registered = {}

(* ------------------------- CRUD on the store --------------------------- *)

\* ChatService.create_message on an existing chat
CrudCreateMessage(c, content, fromAi) ==
    /\ c \in chats
    /\ Room >= 1
    /\ messages' = create_message(messages, c, content, fromAi)
    /\ alone' = Disturb(c, "crud")
    /\ UNCHANGED <<chats, pc, chat_id, message_content, protocol, chat_history,
                   complete_response, out, received, H0, repeat, log>>
    /\ created_at' = stamp(created_at)
    /\ updated_at' = merge_chat(updated_at, c)
    /\ UNCHANGED <<session, now>>
    /\ response' = Returned("create_message", c,
                    [chat_id |-> c, content |-> content, is_from_ai |-> fromAi,
                     created_at |-> now])
    /\ UNCHANGED <<title, userVars>>

(* ------------------ AIService.stream_ai_response ----------------------- *)

\* stream_ai_response(message_content, chat_id, protocol) is called on a
\* service built by get_ai_service, and the generator starts to be iterated
BeginTurn(t, c, m, p) ==
    /\ pc[t] \in {"idle"} \cup Terminal
    /\ Room >= 2
    /\ pc' = [pc EXCEPT ![t] = "read"]
    /\ chat_id' = [chat_id EXCEPT ![t] = c]
    /\ message_content' = [message_content EXCEPT ![t] = m]
    /\ protocol' = [protocol EXCEPT ![t] = p]
    /\ chat_history' = [chat_history EXCEPT ![t] = <<>>]
    /\ complete_response' = [complete_response EXCEPT ![t] = <<>>]
    /\ out' = [out EXCEPT ![t] = <<>>]
    /\ received' = [received EXCEPT ![t] = <<>>]
    /\ H0' = [H0 EXCEPT ![t] = <<>>]
    /\ alone' = [alone EXCEPT ![t] = TRUE]
    /\ repeat' = [repeat EXCEPT ![t] =
            /\ pc[t] = "done"
            /\ c = chat_id[t] /\ m = message_content[t] /\ p = protocol[t]]
    /\ log' = [log EXCEPT ![t] = <<>>]
    /\ UNCHANGED <<chats, messages>>
    /\ session' = [session EXCEPT ![t] = "open"]
    /\ UNCHANGED <<now, created_at, updated_at>>
    /\ UNCHANGED <<title, userVars>>

\* stream_message builds the generator and the response starts to iterate it
StartTurn(t, c, m, p) ==
    /\ BeginTurn(t, c, m, p)
    /\ UNCHANGED response

\* a step of the turn that raises: the generator ends with the exception
Raise(t, event) ==
    /\ pc' = [pc EXCEPT ![t] = "error"]
    /\ log' = [log EXCEPT ![t] = Append(@, event)]
    /\ UNCHANGED <<chats, messages, chat_id, message_content, protocol,
                   chat_history, complete_response, out, received, H0, alone, repeat>>
    /\ UNCHANGED <<session, now, created_at, updated_at>>
    /\ UNCHANGED <<title, userVars, response>>

\* chat_history = await self.get_chat_history(chat_id); chat_history.append(...)
ReadHistory(t) ==
    /\ pc[t] = "read"
    /\ chat_history' = [chat_history EXCEPT ![t] =
            Append(get_chat_history(chat_id[t]),
                   [role |-> "user", content |-> message_content[t]])]
    /\ H0' = [H0 EXCEPT ![t] = ChatMessages(chat_id[t])]
    /\ alone' = [alone EXCEPT ![t] = TRUE]
    /\ log' = [log EXCEPT ![t] = Append(@, "read")]
    /\ pc' = [pc EXCEPT ![t] = "write_user"]
    /\ UNCHANGED <<chats, messages, chat_id, message_content, protocol,
                   complete_response, out, received, repeat>>
    /\ UNCHANGED <<session, now, created_at, updated_at>>
    /\ UNCHANGED <<title, userVars, response>>

ReadHistoryFail(t) ==
    /\ pc[t] = "read"
    /\ Raise(t, "read_fail")

\* a plausible slip: the write is started but not waited for
WriteUserDeferred(t) ==
    /\ pc[t] = "write_user"
    /\ pc' = [pc EXCEPT ![t] = "call"]
    /\ UNCHANGED <<chats, messages, chat_id, message_content, protocol,
                   chat_history, complete_response, out, received, H0, alone,
                   repeat, log>>
    /\ UNCHANGED <<session, now, created_at, updated_at>>
    /\ UNCHANGED <<title, userVars, response>>

\* self.chat_repository.create_message(user_message_data)
WriteUser(t) ==
    /\ pc[t] = "write_user"
    /\ messages' = create_message(messages, chat_id[t], message_content[t], FALSE)
    /\ alone' = Disturb(chat_id[t], t)
    /\ log' = [log EXCEPT ![t] = Append(@, "user")]
    /\ pc' = [pc EXCEPT ![t] = "call"]
    /\ UNCHANGED <<chats, chat_id, message_content, protocol, chat_history,
                   complete_response, out, received, H0, repeat>>
    /\ created_at' = stamp(created_at)
    /\ updated_at' = merge_chat(updated_at, chat_id[t])
    /\ UNCHANGED <<session, now>>
    /\ UNCHANGED <<title, userVars, response>>

WriteUserFail(t) ==
    /\ pc[t] = "write_user"
    /\ Raise(t, "user_fail")

\* a plausible slip: an unrecognized protocol falls back to the data loop
DispatchDefaultData(p) == "loop"

\* if protocol == "text": ... elif protocol == "data": ... (no else branch)
Dispatch(p) == IF p = "text" \/ p = "data" THEN "loop" ELSE "write_ai"

\* complete_response = ""; stream = await client.chat.completions.create(...)
\* followed by the dispatch on protocol
CallProvider(t) ==
    /\ pc[t] = "call"
    /\ complete_response' = [complete_response EXCEPT ![t] = <<>>]
    /\ log' = [log EXCEPT ![t] = Append(@, "call")]
    /\ pc' = [pc EXCEPT ![t] = Dispatch(protocol[t])]
    /\ UNCHANGED <<chats, messages, chat_id, message_content, protocol,
                   chat_history, out, received, H0, alone, repeat>>
    /\ UNCHANGED <<session, now, created_at, updated_at>>
    /\ UNCHANGED <<title, userVars, response>>

\* a plausible slip: the failure is caught and the call is made again
CallProviderFailRetry(t) ==
    /\ pc[t] = "call"
    /\ Len(log[t]) < 4
    /\ log' = [log EXCEPT ![t] = Append(@, "call_fail")]
    /\ UNCHANGED <<chats, messages, pc, chat_id, message_content, protocol,
                   chat_history, complete_response, out, received, H0, alone,
                   repeat, session, now, created_at, updated_at>>
    /\ UNCHANGED <<title, userVars, response>>

\* await client.chat.completions.create(...) raises
CallProviderFail(t) ==
    /\ pc[t] = "call"
    /\ Raise(t, "call_fail")

\* if chunk.choices and chunk.choices[0].delta.content
HasContent(ch) == ch.choices /\ ch.content # <<>>

\* a plausible slip: the data framing is applied to every protocol
FrameAlwaysData(p, content) == DataLine(content)

\* the chunk yielded for one delta: content, or f"0:{json.dumps(content)}\n"
Frame(p, content) == IF p = "text" THEN content ELSE DataLine(content)

\* a plausible slip: the new delta is put in front of the accumulated text
AccumulateInFront(resp, content) == content \o resp

\* complete_response += content
Accumulate(resp, content) == resp \o content

\* a plausible slip: the accumulator is one buffer shared by all requests
RecvChunkSharedBuffer(t, ch) ==
    /\ pc[t] = "loop"
    /\ Len(received[t]) < MaxChunks
    /\ received' = [received EXCEPT ![t] = Append(@, ch)]
    /\ IF HasContent(ch)
       THEN /\ complete_response' =
                [x \in DOMAIN complete_response |->
                    Accumulate(complete_response[x], ch.content)]
            /\ out' = [out EXCEPT ![t] = Append(@, Frame(protocol[t], ch.content))]
            /\ log' = [log EXCEPT ![t] = Append(@, "yield")]
            /\ pc' = [pc EXCEPT ![t] = "yielded"]
       ELSE UNCHANGED <<complete_response, out, log, pc>>
    /\ UNCHANGED <<chats, messages, chat_id, message_content, protocol,
                   chat_history, H0, alone, repeat>>
    /\ UNCHANGED <<session, now, created_at, updated_at>>
    /\ UNCHANGED <<title, userVars, response>>

\* a plausible slip: only chunk.choices is tested before the chunk is yielded
RecvChunkAnyChoice(t, ch) ==
    /\ pc[t] = "loop"
    /\ Len(received[t]) < MaxChunks
    /\ received' = [received EXCEPT ![t] = Append(@, ch)]
    /\ IF ch.choices
       THEN /\ complete_response' = [complete_response EXCEPT ![t] = Accumulate(@, ch.content)]
            /\ out' = [out EXCEPT ![t] = Append(@, Frame(protocol[t], ch.content))]
            /\ log' = [log EXCEPT ![t] = Append(@, "yield")]
            /\ pc' = [pc EXCEPT ![t] = "yielded"]
       ELSE UNCHANGED <<complete_response, out, log, pc>>
    /\ UNCHANGED <<chats, messages, chat_id, message_content, protocol,
                   chat_history, H0, alone, repeat>>
    /\ UNCHANGED <<session, now, created_at, updated_at>>
    /\ UNCHANGED <<title, userVars, response>>

\* one iteration of "async for chunk in stream"
RecvChunk(t, ch) ==
    /\ pc[t] = "loop"
    /\ Len(received[t]) < MaxChunks
    /\ received' = [received EXCEPT ![t] = Append(@, ch)]
    /\ IF HasContent(ch)
       THEN /\ complete_response' = [complete_response EXCEPT ![t] = Accumulate(@, ch.content)]
            /\ out' = [out EXCEPT ![t] = Append(@, Frame(protocol[t], ch.content))]
            /\ log' = [log EXCEPT ![t] = Append(@, "yield")]
            /\ pc' = [pc EXCEPT ![t] = "yielded"]
       ELSE UNCHANGED <<complete_response, out, log, pc>>
    /\ UNCHANGED <<chats, messages, chat_id, message_content, protocol,
                   chat_history, H0, alone, repeat>>
    /\ UNCHANGED <<session, now, created_at, updated_at>>
    /\ UNCHANGED <<title, userVars, response>>

\* a plausible slip: the AI message is saved before the finish line is sent
StreamEndSaveFirst(t) ==
    /\ pc[t] = "loop"
    /\ IF protocol[t] = "data"
       THEN /\ messages' = create_message(messages, chat_id[t], complete_response[t], TRUE)
            /\ out' = [out EXCEPT ![t] = Append(@, FinishLine(complete_response[t]))]
            /\ log' = [log EXCEPT ![t] = @ \o <<"eos", "ai", "yield">>]
            /\ pc' = [pc EXCEPT ![t] = "yielded_final"]
       ELSE /\ log' = [log EXCEPT ![t] = Append(@, "eos")]
            /\ pc' = [pc EXCEPT ![t] = "write_ai"]
            /\ UNCHANGED <<out, messages>>
    /\ UNCHANGED <<chats, chat_id, message_content, protocol, chat_history,
                   complete_response, received, H0, alone, repeat>>
    /\ created_at' = IF protocol[t] = "data" THEN stamp(created_at) ELSE created_at
    /\ updated_at' = merge_chat(updated_at, chat_id[t])
    /\ UNCHANGED <<session, now>>
    /\ UNCHANGED <<title, userVars, response>>

\* a plausible slip: nothing is saved when the response is empty
StreamEndSkipEmpty(t) ==
    /\ pc[t] = "loop"
    /\ IF protocol[t] = "data"
       THEN /\ out' = [out EXCEPT ![t] = Append(@, FinishLine(complete_response[t]))]
            /\ log' = [log EXCEPT ![t] = @ \o <<"eos", "yield">>]
            /\ pc' = [pc EXCEPT ![t] = "yielded_final"]
       ELSE /\ log' = [log EXCEPT ![t] =
                    IF complete_response[t] = <<>> THEN @ \o <<"eos", "end">>
                    ELSE Append(@, "eos")]
            /\ pc' = [pc EXCEPT ![t] =
                    IF complete_response[t] = <<>> THEN "done" ELSE "write_ai"]
            /\ UNCHANGED out
    /\ UNCHANGED <<chats, messages, chat_id, message_content, protocol,
                   chat_history, complete_response, received, H0, alone, repeat>>
    /\ UNCHANGED <<session, now, created_at, updated_at>>
    /\ UNCHANGED <<title, userVars, response>>

\* the stream signals its end; for "data" the finish line is yielded
StreamEnd(t) ==
    /\ pc[t] = "loop"
    /\ IF protocol[t] = "data"
       THEN /\ out' = [out EXCEPT ![t] = Append(@, FinishLine(complete_response[t]))]
            /\ log' = [log EXCEPT ![t] = @ \o <<"eos", "yield">>]
            /\ pc' = [pc EXCEPT ![t] = "yielded_final"]
       ELSE /\ log' = [log EXCEPT ![t] = Append(@, "eos")]
            /\ pc' = [pc EXCEPT ![t] = "write_ai"]
            /\ UNCHANGED out
    /\ UNCHANGED <<chats, messages, chat_id, message_content, protocol,
                   chat_history, complete_response, received, H0, alone, repeat>>
    /\ UNCHANGED <<session, now, created_at, updated_at>>
    /\ UNCHANGED <<title, userVars, response>>

\* a plausible slip: the partial response is saved when the stream raises
StreamRaiseSavePartial(t) ==
    /\ pc[t] = "loop"
    /\ messages' = create_message(messages, chat_id[t], complete_response[t], TRUE)
    /\ pc' = [pc EXCEPT ![t] = "error"]
    /\ log' = [log EXCEPT ![t] = Append(@, "stream_fail")]
    /\ UNCHANGED <<chats, chat_id, message_content, protocol, chat_history,
                   complete_response, out, received, H0, alone, repeat>>
    /\ created_at' = stamp(created_at)
    /\ updated_at' = merge_chat(updated_at, chat_id[t])
    /\ UNCHANGED <<session, now>>
    /\ UNCHANGED <<title, userVars, response>>

\* a plausible slip: the finish line is sent when the stream raises
StreamRaiseWithFinish(t) ==
    /\ pc[t] = "loop"
    /\ out' = [out EXCEPT ![t] =
            IF protocol[t] = "data" THEN Append(@, FinishLine(complete_response[t]))
            ELSE @]
    /\ pc' = [pc EXCEPT ![t] = "error"]
    /\ log' = [log EXCEPT ![t] = Append(@, "stream_fail")]
    /\ UNCHANGED <<chats, messages, chat_id, message_content, protocol,
                   chat_history, complete_response, received, H0, alone, repeat,
                   session, now, created_at, updated_at>>
    /\ UNCHANGED <<title, userVars, response>>

\* the stream raises instead of yielding its next chunk
StreamRaise(t) ==
    /\ pc[t] = "loop"
    /\ Raise(t, "stream_fail")

\* a plausible slip: the loop is left after the first chunk that was yielded
ResumeSkipDrain(t) ==
    /\ pc[t] \in {"yielded", "yielded_final"}
    /\ pc' = [pc EXCEPT ![t] = "write_ai"]
    /\ UNCHANGED <<chats, messages, chat_id, message_content, protocol,
                   chat_history, complete_response, out, received, H0, alone, repeat, log>>
    /\ UNCHANGED <<session, now, created_at, updated_at>>
    /\ UNCHANGED <<title, userVars, response>>

\* the caller asks for the next chunk: the generator resumes after its yield
Resume(t) ==
    /\ pc[t] \in {"yielded", "yielded_final"}
    /\ pc' = [pc EXCEPT ![t] = IF pc[t] = "yielded" THEN "loop" ELSE "write_ai"]
    /\ UNCHANGED <<chats, messages, chat_id, message_content, protocol,
                   chat_history, complete_response, out, received, H0, alone, repeat, log>>
    /\ UNCHANGED <<session, now, created_at, updated_at>>
    /\ UNCHANGED <<title, userVars, response>>

\* a plausible slip: a finally clause saves what was accumulated
CancelSavePartial(t) ==
    /\ pc[t] \in {"call", "loop", "yielded", "yielded_final"}
    /\ pc' = [pc EXCEPT ![t] = "cancelled"]
    /\ log' = [log EXCEPT ![t] = Append(@, "cancel")]
    /\ messages' = create_message(messages, chat_id[t], complete_response[t], TRUE)
    /\ created_at' = stamp(created_at)
    /\ updated_at' = merge_chat(updated_at, chat_id[t])
    /\ UNCHANGED <<chats, chat_id, message_content, protocol, chat_history,
                   complete_response, out, received, H0, alone, repeat,
                   session, now>>
    /\ UNCHANGED <<title, userVars, response>>

\* the caller goes away: the generator is closed while it is suspended at a
\* yield (GeneratorExit), or the task is cancelled while it awaits the provider
\* (CancelledError); nothing catches either, no finally clause runs
Cancel(t) ==
    /\ pc[t] \in {"call", "loop", "yielded", "yielded_final"}
    /\ pc' = [pc EXCEPT ![t] = "cancelled"]
    /\ log' = [log EXCEPT ![t] = Append(@, "cancel")]
    /\ UNCHANGED <<chats, messages, chat_id, message_content, protocol,
                   chat_history, complete_response, out, received, H0, alone, repeat>>
    /\ UNCHANGED <<session, now, created_at, updated_at>>
    /\ UNCHANGED <<title, userVars, response>>

\* a plausible slip: the AI message is saved with the user's origin flag
WriteAIAsUser(t) ==
    /\ pc[t] = "write_ai"
    /\ messages' = create_message(messages, chat_id[t], complete_response[t], FALSE)
    /\ alone' = Disturb(chat_id[t], t)
    /\ log' = [log EXCEPT ![t] = @ \o <<"ai", "end">>]
    /\ pc' = [pc EXCEPT ![t] = "done"]
    /\ UNCHANGED <<chats, chat_id, message_content, protocol, chat_history,
                   complete_response, out, received, H0, repeat>>
    /\ created_at' = stamp(created_at)
    /\ updated_at' = merge_chat(updated_at, chat_id[t])
    /\ UNCHANGED <<session, now>>
    /\ UNCHANGED <<title, userVars, response>>

\* self.chat_repository.create_message(ai_message_data); the generator returns
WriteAI(t) ==
    /\ pc[t] = "write_ai"
    /\ messages' = create_message(messages, chat_id[t], complete_response[t], TRUE)
    /\ alone' = Disturb(chat_id[t], t)
    /\ log' = [log EXCEPT ![t] = @ \o <<"ai", "end">>]
    /\ pc' = [pc EXCEPT ![t] = "done"]
    /\ UNCHANGED <<chats, chat_id, message_content, protocol, chat_history,
                   complete_response, out, received, H0, repeat>>
    /\ created_at' = stamp(created_at)
    /\ updated_at' = merge_chat(updated_at, chat_id[t])
    /\ UNCHANGED <<session, now>>
    /\ UNCHANGED <<title, userVars, response>>

WriteAIFail(t) ==
    /\ pc[t] = "write_ai"
    /\ Raise(t, "ai_fail")

(* ------------------------------- Next ---------------------------------- *)

Next ==
    \/ \E c \in ChatIds, d \in CrudPayloads : CrudCreateMessage(c, d.content, d.is_from_ai)
    \/ \E t \in Turns, c \in ChatIds, m \in UserTexts, p \in Protocols : StartTurn(t, c, m, p)
    \/ \E t \in Turns : ReadHistory(t)
    \/ \E t \in Turns : ReadHistoryFail(t)
    \/ \E t \in Turns : WriteUser(t)
    \/ \E t \in Turns : WriteUserFail(t)
    \/ \E t \in Turns : CallProvider(t)
    \/ \E t \in Turns : CallProviderFail(t)
    \/ \E t \in Turns, ch \in ProviderChunks : RecvChunk(t, ch)
    \/ \E t \in Turns : StreamEnd(t)
    \/ \E t \in Turns : StreamRaise(t)
    \/ \E t \in Turns : Resume(t)
    \/ \E t \in Turns : Cancel(t)
    \/ \E t \in Turns : WriteAI(t)
    \/ \E t \in Turns : WriteAIFail(t)

Spec == Init /\ [][Next]_vars

(* --------------------- reading the output back ------------------------- *)

Invalid == <<"<invalid>">>

\* the characters of a JSON string body, escapes resolved
RECURSIVE json_unescape(_)
json_unescape(s) ==
    IF s = <<>> THEN <<>>
    ELSE IF Head(s) = "\"" THEN Invalid
    ELSE IF Head(s) = "\n" THEN Invalid
    ELSE IF Head(s) # "\\" THEN <<Head(s)>> \o json_unescape(Tail(s))
    ELSE IF Len(s) < 2 THEN Invalid
    ELSE LET e == s[2]
             rest == json_unescape(Tail(Tail(s)))
         IN  CASE e = "\"" -> <<"\"">> \o rest
               [] e = "\\" -> <<"\\">> \o rest
               [] e = "n"  -> <<"\n">> \o rest
               [] OTHER    -> Invalid

\* json.loads of a JSON string literal
json_loads(s) ==
    IF Len(s) >= 2 /\ s[1] = "\"" /\ s[Len(s)] = "\""
    THEN json_unescape(SubSeq(s, 2, Len(s) - 1))
    ELSE Invalid

Newlines(s) == Cardinality({i \in 1..Len(s) : s[i] = "\n"})

\* the text carried by an output line 0:<json>\n
DataPayload(line) ==
    IF /\ Len(line) >= 3
       /\ line[1] = "0" /\ line[2] = ":"
       /\ line[Len(line)] = "\n" /\ Newlines(line) = 1
    THEN json_loads(SubSeq(line, 3, Len(line) - 1))
    ELSE Invalid

DigitVal(c) ==
    IF \E i \in 1..10 : DigitChars[i] = c
    THEN (CHOOSE i \in 1..10 : DigitChars[i] = c) - 1
    ELSE -1

\* int(s) of a decimal numeral, -1 when s is not one
RECURSIVE ParseNat(_)
ParseNat(s) ==
    IF s = <<>> THEN -1
    ELSE LET d == DigitVal(s[Len(s)])
         IN  IF d = -1 THEN -1
             ELSE IF Len(s) = 1 THEN d
             ELSE LET hi == ParseNat(SubSeq(s, 1, Len(s) - 1))
                  IN  IF hi = -1 THEN -1 ELSE 10 * hi + d

\* a line starts with the tag d:
IsFinishTag(line) == Len(line) >= 2 /\ line[1] = "d" /\ line[2] = ":"

\* completionTokens of a finish line with finishReason stop and promptTokens 0,
\* -1 when the line is not one
FinishTokens(line) ==
    LET n == Len(line)
        a == Len(FinishPrefix)
        z == Len(FinishSuffix)
    IN  IF /\ n > a + z
           /\ SubSeq(line, 1, a) = FinishPrefix
           /\ SubSeq(line, n - z + 1, n) = FinishSuffix
        THEN ParseNat(SubSeq(line, a + 1, n - z))
        ELSE -1

(* ------------------------ what a turn has done ------------------------- *)

InLog(t, e) == \E i \in 1..Len(log[t]) : log[t][i] = e

LastLog(t) == IF log[t] = <<>> THEN "none" ELSE log[t][Len(log[t])]

\* the texts of the chunks the provider yielded that carry content
ContentDeltas(t) ==
    LET withText == SelectSeq(received[t], LAMBDA ch : ch.choices /\ ch.content # <<>>)
    IN  [i \in 1..Len(withText) |-> withText[i].content]

\* R: all the provider yielded, concatenated in arrival order
ReceivedText(t) ==
    Flatten([i \in 1..Len(received[t]) |->
                IF received[t][i].choices THEN received[t][i].content ELSE <<>>])

UserRow(t) ==
    [chat_id |-> chat_id[t], content |-> message_content[t], is_from_ai |-> 0]

AIRow(t, text) == [chat_id |-> chat_id[t], content |-> text, is_from_ai |-> 1]

Framed(t) == protocol[t] \in {"text", "data"}

(* ------------------------------- claims -------------------------------- *)

\* C1: a turn with framing "data" or "text" that is consumed to its end, on a
\* chat nobody else wrote to meanwhile, leaves the chat's stored messages equal
\* to the history H it found, followed by the user message M and then an AI
\* message whose content is the concatenation, in arrival order, of all the
\* deltas the provider yielded.
C1_StoreIsHistoryThenUserThenAI ==
    \A t \in DOMAIN pc :
        (pc[t] = "done" /\ alone[t] /\ Framed(t)) =>
            ChatMessages(chat_id[t]) =
                H0[t] \o <<UserRow(t), AIRow(t, ReceivedText(t))>>

\* a completed framed turn on a chat with history, after two different deltas
C1_Witness ==
    \E t \in DOMAIN pc :
        /\ pc[t] = "done" /\ alone[t] /\ Framed(t)
        /\ H0[t] # <<>>
        /\ Len(ContentDeltas(t)) = 2
        /\ ContentDeltas(t)[1] # ContentDeltas(t)[2]

ProviderInvoked(t) == InLog(t, "call") \/ InLog(t, "call_fail")

UserCommitted(t) ==
    /\ InLog(t, "user")
    /\ \E i \in 1..Len(messages) : messages[i] = UserRow(t)

\* C2: in every turn the user message is committed before the provider is
\* invoked and before any chunk is emitted; when that write fails the provider
\* is never invoked and no chunk is emitted.
C2_UserWriteBeforeProvider ==
    \A t \in DOMAIN pc :
        /\ (ProviderInvoked(t) \/ out[t] # <<>>) => UserCommitted(t)
        /\ \A i \in 1..Len(log[t]) :
              log[t][i] \in {"call", "call_fail", "yield"} =>
                  \E j \in 1..(i - 1) : log[t][j] = "user"
        /\ InLog(t, "user_fail") =>
              /\ ~ProviderInvoked(t)
              /\ out[t] = <<>>
              /\ received[t] = <<>>
              /\ pc[t] = "error"

\* the provider was invoked and a chunk was emitted
C2_Witness ==
    \E t \in DOMAIN pc : ProviderInvoked(t) /\ out[t] # <<>>

YieldsBefore(t, i) == Cardinality({j \in 1..(i - 1) : log[t][j] = "yield"})

\* C3: in every turn that completes, the AI message is committed after the
\* last output chunk (for data framing the d: line) was handed to the caller
\* and before the output sequence signals its end.
C3_AIWriteAfterLastChunkBeforeEnd ==
    \A t \in DOMAIN pc :
        pc[t] = "done" =>
            /\ InLog(t, "ai")
            /\ LastLog(t) = "end"
            /\ \E k \in 1..Len(messages) : messages[k] = AIRow(t, complete_response[t])
            /\ protocol[t] = "data" =>
                  out[t] # <<>> /\ IsFinishTag(out[t][Len(out[t])])
            /\ \A i \in 1..Len(log[t]) :
                  log[t][i] = "ai" =>
                      /\ YieldsBefore(t, i) = Len(out[t])
                      /\ \A j \in (i + 1)..Len(log[t]) : log[t][j] # "yield"
                      /\ \A j \in 1..i : log[t][j] # "end"

\* a completed data turn that emitted two delta lines and the finish line
C3_Witness ==
    \E t \in DOMAIN pc :
        pc[t] = "done" /\ protocol[t] = "data" /\ Len(out[t]) = 3

\* the text an output chunk carries under the turn's framing
ChunkText(t, chunk) == IF protocol[t] = "text" THEN chunk ELSE DataPayload(chunk)

\* C4: when the provider stream raises after k >= 1 deltas, the output ends in
\* error right after the chunks of those k deltas, no AI message is written,
\* and the chat holds the prior history plus the new user message.
C4_StreamFailureKeepsOnlyUserMessage ==
    \A t \in DOMAIN pc :
        (LastLog(t) = "stream_fail" /\ Len(ContentDeltas(t)) >= 1) =>
            /\ pc[t] = "error"
            /\ Len(out[t]) = Len(ContentDeltas(t))
            /\ \A i \in 1..Len(out[t]) : ChunkText(t, out[t][i]) = ContentDeltas(t)[i]
            /\ ~InLog(t, "ai")
            /\ alone[t] => ChatMessages(chat_id[t]) = H0[t] \o <<UserRow(t)>>

\* the stream raised after a delta, on a chat with history
C4_Witness ==
    \E t \in DOMAIN pc :
        /\ LastLog(t) = "stream_fail" /\ Len(ContentDeltas(t)) >= 1
        /\ alone[t] /\ H0[t] # <<>>

EndsWithOrigins(t, origins) ==
    LET rows == ChatMessages(chat_id[t])
        n == Len(H0[t])
    IN  /\ Len(rows) = n + Len(origins)
        /\ SubSeq(rows, 1, n) = H0[t]
        /\ \A i \in 1..Len(origins) : rows[n + i].is_from_ai = origins[i]

\* C5 as stated: every turn leaves exactly two messages, one of the user and
\* one of the AI, also when the provider stream fails partway.
C5_Original ==
    \A t \in DOMAIN pc :
        (alone[t] /\ (pc[t] = "done" \/ LastLog(t) = "stream_fail")) =>
            EndsWithOrigins(t, <<0, 1>>)

Before(t, a, b) ==
    \E i \in 1..Len(log[t]) : \E j \in (i + 1)..Len(log[t]) :
        log[t][i] = a /\ log[t][j] = b

\* C5 amended: a turn that completes leaves exactly two messages in order, the
\* user's written before the provider call begins and the AI's written after
\* the call and, for framing text or data, after the stream is drained; a turn
\* whose provider stream fails partway leaves only the user's message.
C5_TwoMessagesOnlyWhenCompleted ==
    \A t \in DOMAIN pc :
        alone[t] =>
            /\ pc[t] = "done" =>
                  /\ EndsWithOrigins(t, <<0, 1>>)
                  /\ Before(t, "user", "call") /\ Before(t, "call", "ai")
                  /\ Framed(t) => Before(t, "eos", "ai")
            /\ LastLog(t) = "stream_fail" => EndsWithOrigins(t, <<0>>)

\* the stream raised after two deltas of a data turn
C5_Witness ==
    \E t \in DOMAIN pc :
        /\ alone[t] /\ LastLog(t) = "stream_fail"
        /\ protocol[t] = "data" /\ Len(out[t]) = 2

Count(rows, r) == Cardinality({i \in 1..Len(rows) : rows[i] = r})

FinishTags(t) == Cardinality({i \in 1..Len(out[t]) : IsFinishTag(out[t][i])})

\* C6: with framing "data", once the provider stream has ended cleanly the
\* output is one line 0:<JSON of the delta>\n per delta, in arrival order,
\* whose decoded payloads concatenate to the accumulated text R, followed by
\* exactly one d: line with finishReason stop, promptTokens 0 and
\* completionTokens the number of characters of R, and nothing after it;
\* before the clean end there is no d: line.
C6_DataFraming ==
    \A t \in DOMAIN pc :
        protocol[t] = "data" =>
            LET d == ContentDeltas(t)
                n == Len(d)
            IN  IF InLog(t, "eos")
                THEN /\ Len(out[t]) = n + 1
                     /\ \A i \in 1..n : DataPayload(out[t][i]) = d[i]
                     /\ Flatten([i \in 1..n |-> DataPayload(out[t][i])])
                            = complete_response[t]
                     /\ complete_response[t] = ReceivedText(t)
                     /\ FinishTokens(out[t][n + 1]) = Len(ReceivedText(t))
                     /\ FinishTags(t) = 1
                ELSE FinishTags(t) = 0

\* a completed data turn whose deltas need escaping and add up to 11 characters
C6_Witness ==
    \E t \in DOMAIN pc :
        /\ protocol[t] = "data" /\ pc[t] = "done"
        /\ Len(ContentDeltas(t)) = 2
        /\ ContentDeltas(t)[2] = <<"\"">>
        /\ Len(complete_response[t]) = 11

\* C7: with framing "text" the emitted chunks are the deltas themselves, in
\* arrival order and unchanged, their concatenation is the accumulated text R
\* that is persisted, and nothing else is emitted.
C7_TextFraming ==
    \A t \in DOMAIN pc :
        protocol[t] = "text" =>
            /\ out[t] = ContentDeltas(t)
            /\ Flatten(out[t]) = complete_response[t]
            /\ complete_response[t] = ReceivedText(t)
            /\ (pc[t] = "done" /\ alone[t]) =>
                  LET rows == ChatMessages(chat_id[t])
                  IN  rows # <<>> /\ rows[Len(rows)] = AIRow(t, Flatten(out[t]))

\* a completed text turn that emitted two chunks
C7_Witness ==
    \E t \in DOMAIN pc :
        /\ protocol[t] = "text" /\ pc[t] = "done" /\ alone[t]
        /\ Len(out[t]) = 2 /\ out[t][1] # out[t][2]

\* C8: turns are not deduplicated: every completed turn adds its own user
\* message and its own AI message to the chat, also when the chat already
\* holds equal ones from a turn with the same arguments, so the chat grows by
\* exactly 2 messages per completed turn.
C8_NoDeduplication ==
    \A t \in DOMAIN pc :
        (pc[t] = "done" /\ alone[t]) =>
            LET rows == ChatMessages(chat_id[t])
                ai == AIRow(t, complete_response[t])
            IN  /\ Len(rows) = Len(H0[t]) + 2
                /\ SubSeq(rows, 1, Len(H0[t])) = H0[t]
                /\ Count(rows, UserRow(t)) = Count(H0[t], UserRow(t)) + 1
                /\ Count(rows, ai) = Count(H0[t], ai) + 1

\* the second of two completed turns with the same arguments and the same
\* response, the first pair being the end of the history the second one found
C8_Witness ==
    \E t \in DOMAIN pc :
        /\ pc[t] = "done" /\ alone[t] /\ repeat[t] /\ Framed(t)
        /\ complete_response[t] # <<>>
        /\ Len(H0[t]) >= 2
        /\ SubSeq(H0[t], Len(H0[t]) - 1, Len(H0[t]))
              = <<UserRow(t), AIRow(t, complete_response[t])>>

\* C9: when the provider stream ends without any delta, the turn persists the
\* user message and then an AI message with empty content; with framing "data"
\* the only chunk is the d: line with completionTokens 0, with framing "text"
\* there is no chunk.
C9_EmptyStream ==
    \A t \in DOMAIN pc :
        (Framed(t) /\ InLog(t, "eos") /\ ContentDeltas(t) = <<>>) =>
            /\ protocol[t] = "data" =>
                  out[t] = <<FinishPrefix \o <<"0">> \o FinishSuffix>>
            /\ protocol[t] = "text" => out[t] = <<>>
            /\ UserCommitted(t)
            /\ pc[t] \in {"yielded_final", "write_ai", "done", "error", "cancelled"}
            /\ pc[t] = "error" => LastLog(t) = "ai_fail"
            /\ (pc[t] = "done" /\ alone[t]) =>
                  ChatMessages(chat_id[t]) = H0[t] \o <<UserRow(t), AIRow(t, <<>>)>>

\* a completed data turn whose provider stream ended at once
C9_Witness ==
    \E t \in DOMAIN pc :
        /\ protocol[t] = "data" /\ pc[t] = "done" /\ alone[t]
        /\ received[t] = <<>>

\* C10: with a framing other than "text" and "data" a turn emits no chunk at
\* all, persists the user message, and persists exactly one AI message with
\* empty content whatever the provider stream holds.
C10_UnknownFraming ==
    \A t \in DOMAIN pc :
        (pc[t] # "idle" /\ ~Framed(t)) =>
            /\ out[t] = <<>>
            /\ complete_response[t] = <<>>
            /\ InLog(t, "call") =>
                  UserCommitted(t) /\ pc[t] \in {"write_ai", "done", "error"}
            /\ pc[t] = "done" => Count(messages, AIRow(t, <<>>)) >= 1
            /\ (pc[t] = "done" /\ alone[t]) =>
                  ChatMessages(chat_id[t]) = H0[t] \o <<UserRow(t), AIRow(t, <<>>)>>

\* a completed turn with framing "json" on a chat with history
C10_Witness ==
    \E t \in DOMAIN pc :
        /\ ~Framed(t) /\ pc[t] = "done" /\ alone[t]
        /\ H0[t] # <<>>

(* ------------------ AIService.generate_ai_response --------------------- *)

\* response.choices[0].message.content: the whole completion in one result
Completions == DeltaTexts

\* a caller awaits generate_ai_response(message_content, chat_id) on a service
\* built by get_ai_service
GenerateStart(t, c, m) ==
    /\ pc[t] \in {"idle"} \cup Terminal
    /\ Room >= 1
    /\ pc' = [pc EXCEPT ![t] = "g_read"]
    /\ chat_id' = [chat_id EXCEPT ![t] = c]
    /\ message_content' = [message_content EXCEPT ![t] = m]
    /\ chat_history' = [chat_history EXCEPT ![t] = <<>>]
    /\ complete_response' = [complete_response EXCEPT ![t] = <<>>]
    /\ out' = [out EXCEPT ![t] = <<>>]
    /\ received' = [received EXCEPT ![t] = <<>>]
    /\ H0' = [H0 EXCEPT ![t] = <<>>]
    /\ alone' = [alone EXCEPT ![t] = TRUE]
    /\ repeat' = [repeat EXCEPT ![t] = FALSE]
    /\ log' = [log EXCEPT ![t] = <<"generate">>]
    /\ session' = [session EXCEPT ![t] = "open"]
    /\ UNCHANGED <<chats, messages, protocol, now, created_at, updated_at>>
    /\ UNCHANGED <<title, userVars, response>>

\* chat_history = await self.get_chat_history(chat_id); chat_history.append(...)
\* The next statement is the provider call: no message is created here.
GenerateReadHistory(t) ==
    /\ pc[t] = "g_read"
    /\ chat_history' = [chat_history EXCEPT ![t] =
            Append(get_chat_history(chat_id[t]),
                   [role |-> "user", content |-> message_content[t]])]
    /\ H0' = [H0 EXCEPT ![t] = ChatMessages(chat_id[t])]
    /\ alone' = [alone EXCEPT ![t] = TRUE]
    /\ log' = [log EXCEPT ![t] = Append(@, "read")]
    /\ pc' = [pc EXCEPT ![t] = "g_call"]
    /\ UNCHANGED <<chats, messages, chat_id, message_content, protocol,
                   complete_response, out, received, repeat,
                   session, now, created_at, updated_at>>
    /\ UNCHANGED <<title, userVars, response>>

GenerateReadHistoryFail(t) ==
    /\ pc[t] = "g_read"
    /\ Raise(t, "read_fail")

\* response = await client.chat.completions.create(...);
\* ai_response = response.choices[0].message.content
GenerateCall(t, r) ==
    /\ pc[t] = "g_call"
    /\ complete_response' = [complete_response EXCEPT ![t] = r]
    /\ log' = [log EXCEPT ![t] = Append(@, "call")]
    /\ pc' = [pc EXCEPT ![t] = "g_write_ai"]
    /\ UNCHANGED <<chats, messages, chat_id, message_content, protocol,
                   chat_history, out, received, H0, alone, repeat,
                   session, now, created_at, updated_at>>
    /\ UNCHANGED <<title, userVars, response>>

GenerateCallFail(t) ==
    /\ pc[t] = "g_call"
    /\ Raise(t, "call_fail")

\* ai_message = self.chat_repository.create_message(message_data); return {...}
GenerateWriteAI(t) ==
    /\ pc[t] = "g_write_ai"
    /\ messages' = create_message(messages, chat_id[t], complete_response[t], TRUE)
    /\ created_at' = stamp(created_at)
    /\ updated_at' = merge_chat(updated_at, chat_id[t])
    /\ alone' = Disturb(chat_id[t], t)
    /\ log' = [log EXCEPT ![t] = @ \o <<"ai", "end">>]
    /\ pc' = [pc EXCEPT ![t] = "done"]
    /\ UNCHANGED <<chats, chat_id, message_content, protocol, chat_history,
                   complete_response, out, received, H0, repeat, session, now>>
    /\ UNCHANGED <<title, userVars, response>>

GenerateWriteAIFail(t) ==
    /\ pc[t] = "g_write_ai"
    /\ Raise(t, "ai_fail")

NextGenerate ==
    \/ \E c \in ChatIds, d \in CrudPayloads : CrudCreateMessage(c, d.content, d.is_from_ai)
    \/ \E t \in Turns, c \in ChatIds, m \in UserTexts : GenerateStart(t, c, m)
    \/ \E t \in Turns : GenerateReadHistory(t)
    \/ \E t \in Turns : GenerateReadHistoryFail(t)
    \/ \E t \in Turns, r \in Completions : GenerateCall(t, r)
    \/ \E t \in Turns : GenerateCallFail(t)
    \/ \E t \in Turns : GenerateWriteAI(t)
    \/ \E t \in Turns : GenerateWriteAIFail(t)

SpecGenerate == Init /\ [][NextGenerate]_vars

\* C11: generate_ai_response persists the user message before it calls the
\* provider and then one AI message with the whole completion, so that a call
\* that returned leaves the chat as H + [user M, assistant R], as a completed
\* streaming turn with the same inputs does.
C11_SingleShotStoresUserThenAI ==
    \A t \in DOMAIN pc :
        (log[t] # <<>> /\ log[t][1] = "generate") =>
            /\ ProviderInvoked(t) => UserCommitted(t)
            /\ (pc[t] = "done" /\ alone[t]) =>
                  ChatMessages(chat_id[t]) =
                      H0[t] \o <<UserRow(t), AIRow(t, complete_response[t])>>

\* what the call leaves instead: the prior history and the AI message only
C11_Witness ==
    \E t \in DOMAIN pc :
        /\ log[t] = <<"generate", "read", "call", "ai", "end">>
        /\ alone[t] /\ H0[t] # <<>>
        /\ ChatMessages(chat_id[t]) = H0[t] \o <<AIRow(t, complete_response[t])>>

(* ------------------- a turn on a chat with a long history -------------- *)

MaxHistory == 52    \* messages the chat holds when the turn starts

\* n stored messages of chat c1, numbered in their content, origins alternating
StoredHistory(n, k) ==
    [i \in 1..n |->
        [chat_id |-> "c1", content |-> IntToStr(i), is_from_ai |-> (i + k) % 2]]

\* chat c1 holds up to MaxHistory messages and a streaming request for it has
\* been accepted
InitHistory ==
    /\ chats = {"c1"}
    /\ \E n \in 0..MaxHistory, k \in {0, 1} :
          /\ messages = StoredHistory(n, k)
          /\ created_at = [i \in 1..n |-> 0]
    /\ pc = [t \in Turns |-> "read"]
    /\ chat_id = [t \in Turns |-> "c1"]
    /\ message_content = [t \in Turns |-> <<"u">>]
    /\ protocol = [t \in Turns |-> "data"]
    /\ chat_history = [t \in Turns |-> <<>>]
    /\ complete_response = [t \in Turns |-> <<>>]
    /\ out = [t \in Turns |-> <<>>]
    /\ received = [t \in Turns |-> <<>>]
    /\ H0 = [t \in Turns |-> <<>>]
    /\ alone = [t \in Turns |-> TRUE]
    /\ repeat = [t \in Turns |-> FALSE]
    /\ log = [t \in Turns |-> <<>>]
    /\ session = [t \in Turns |-> "open"]
    /\ now = 0
    /\ updated_at = [c \in {"c1"} |-> 0]
    /\ title = [c \in {"c1"} |-> NoTitle]
    /\ users = <<>>
    /\ response = NoResponse
    /\ registered = {}

\* the turn up to the provider call
NextHistory ==
    \/ \E t \in Turns : ReadHistory(t)
    \/ \E t \in Turns : ReadHistoryFail(t)
    \/ \E t \in Turns : WriteUser(t)
    \/ \E t \in Turns : WriteUserFail(t)
    \/ \E t \in Turns : CallProvider(t)
    \/ \E t \in Turns : CallProviderFail(t)

SpecHistory == InitHistory /\ [][NextHistory]_vars

\* the role-tagged form of stored rows
RoleTagged(rows) ==
    [i \in 1..Len(rows) |->
        [role |-> IF rows[i].is_from_ai = 1 THEN "assistant" ELSE "user",
         content |-> rows[i].content]]

\* C12: the message list passed to the provider is the chat's full persisted
\* history, every stored message however many there are, in creation order and
\* role-tagged by origin, followed by the new user text once, as the last
\* element, with role "user".
C12_ProviderGetsFullHistory ==
    \A t \in DOMAIN pc :
        ProviderInvoked(t) =>
            chat_history[t] =
                RoleTagged(H0[t]) \o
                    <<[role |-> "user", content |-> message_content[t]]>>

\* the provider was called for a chat of DefaultLimit + 1 messages with a list
\* that lacks the newest of them
C12_Witness ==
    \E t \in DOMAIN pc :
        /\ ProviderInvoked(t)
        /\ Len(H0[t]) = DefaultLimit + 1
        /\ Len(chat_history[t]) = DefaultLimit + 1
        /\ \A i \in 1..Len(chat_history[t]) :
              chat_history[t][i].content # H0[t][DefaultLimit + 1].content

\* C13: when the caller cancels or stops consuming before the output ends,
\* after any number of chunks and also after the d: line was handed over, no
\* further chunk is produced, the AI message write is never attempted, and of
\* that turn only the user message is in the store.
C13_CancelStopsTurn ==
    \A t \in DOMAIN pc :
        /\ InLog(t, "cancel") =>
              /\ pc[t] = "cancelled"
              /\ LastLog(t) = "cancel"
              /\ YieldsBefore(t, Len(log[t])) = Len(out[t])
              /\ ~InLog(t, "ai") /\ ~InLog(t, "ai_fail")
              /\ alone[t] => ChatMessages(chat_id[t]) = H0[t] \o <<UserRow(t)>>
        /\ pc[t] \in {"yielded", "yielded_final"} =>
              /\ ~InLog(t, "ai") /\ ~InLog(t, "ai_fail")
              /\ alone[t] => ChatMessages(chat_id[t]) = H0[t] \o <<UserRow(t)>>

\* the caller went away after a delta line and the d: line were handed over
C13_Witness ==
    \E t \in DOMAIN pc :
        /\ pc[t] = "cancelled" /\ alone[t]
        /\ Len(out[t]) = 2 /\ IsFinishTag(out[t][2])
        /\ ChatMessages(chat_id[t]) = H0[t] \o <<UserRow(t)>>

(* --------------------- chats, deletion and the clock ------------------- *)

MaxClock == 1       \* ticks of the store's clock

\* time passes
Tick ==
    /\ now < MaxClock
    /\ now' = now + 1
    /\ UNCHANGED <<chats, messages, turnVars, created_at, updated_at>>
    /\ UNCHANGED <<title, userVars, response>>

\* ChatService.create_chat: a new row of "chats"; its id is a fresh uuid4, so
\* nothing in the store or in a request refers to it yet; updated_at gets
\* server_default=func.now()
CreateChat(c) ==
    /\ c \notin chats
    /\ \A i \in 1..Len(messages) : messages[i].chat_id # c
    /\ \A t \in DOMAIN pc : chat_id[t] = c => pc[t] = "idle"
    /\ chats' = chats \cup {c}
    /\ updated_at' = [x \in chats \cup {c} |-> IF x = c THEN now ELSE updated_at[x]]
    /\ UNCHANGED <<messages, turnVars, now, created_at>>
    /\ title' = [x \in chats \cup {c} |-> IF x = c THEN NoTitle ELSE title[x]]
    /\ response' = Returned("create_chat", c,
                    [id |-> c, title |-> ShownTitle(NoTitle, c), updated_at |-> now,
                     messages |-> <<>>])
    /\ UNCHANGED userVars

\* the positions of the rows that do not belong to chat c
OtherRows(c) == {i \in 1..Len(messages) : messages[i].chat_id # c}

RECURSIVE KeepAt(_, _, _)
KeepAt(seq, keep, i) ==
    IF i > Len(seq) THEN <<>>
    ELSE (IF i \in keep THEN <<seq[i]>> ELSE <<>>) \o KeepAt(seq, keep, i + 1)

\* a plausible slip: the chat's row is deleted and its messages are left to
\* the database, which does not enforce the foreign key
DeleteChatNoCascade(c) ==
    /\ c \in chats
    /\ chats' = chats \ {c}
    /\ updated_at' = [x \in chats \ {c} |-> updated_at[x]]
    /\ title' = [x \in chats \ {c} |-> title[x]]
    /\ alone' = Disturb(c, "crud")
    /\ response' = Returned("delete_chat", c,
                    [success |-> TRUE, message |-> "Chat deleted successfully"])
    /\ UNCHANGED <<messages, created_at, pc, chat_id, message_content, protocol,
                   chat_history, complete_response, out, received, H0, repeat,
                   log, session, now, userVars>>

\* ChatService.delete_chat of an existing chat: db.delete(chat) and commit; the
\* relationship Chat.messages has cascade="all, delete-orphan", so the session
\* loads the chat's messages and deletes them in the same transaction
DeleteChat(c) ==
    /\ c \in chats
    /\ chats' = chats \ {c}
    /\ messages' = KeepAt(messages, OtherRows(c), 1)
    /\ created_at' = KeepAt(created_at, OtherRows(c), 1)
    /\ updated_at' = [x \in chats \ {c} |-> updated_at[x]]
    /\ alone' = Disturb(c, "crud")
    /\ UNCHANGED <<pc, chat_id, message_content, protocol, chat_history,
                   complete_response, out, received, H0, repeat, log, session, now>>
    /\ title' = [x \in chats \ {c} |-> title[x]]
    /\ response' = Returned("delete_chat", c,
                    [success |-> TRUE, message |-> "Chat deleted successfully"])
    /\ UNCHANGED userVars

\* framing and provider chunks of the turns that run next to the store's CRUD
StoreProtocols == {"data"}
StoreChunks == {[choices |-> TRUE, content |-> <<"\"">>]}

NextStore ==
    \/ Tick
    \/ \E c \in ChatIds : CreateChat(c)
    \/ \E c \in ChatIds : DeleteChat(c)
    \/ \E c \in ChatIds, d \in CrudPayloads : CrudCreateMessage(c, d.content, d.is_from_ai)
    \/ \E t \in Turns, c \in ChatIds, m \in UserTexts, p \in StoreProtocols : StartTurn(t, c, m, p)
    \/ \E t \in Turns : ReadHistory(t)
    \/ \E t \in Turns : ReadHistoryFail(t)
    \/ \E t \in Turns : WriteUser(t)
    \/ \E t \in Turns : WriteUserFail(t)
    \/ \E t \in Turns : CallProvider(t)
    \/ \E t \in Turns : CallProviderFail(t)
    \/ \E t \in Turns, ch \in StoreChunks : RecvChunk(t, ch)
    \/ \E t \in Turns : StreamEnd(t)
    \/ \E t \in Turns : StreamRaise(t)
    \/ \E t \in Turns : Resume(t)
    \/ \E t \in Turns : Cancel(t)
    \/ \E t \in Turns : WriteAI(t)
    \/ \E t \in Turns : WriteAIFail(t)

SpecStore == Init /\ [][NextStore]_vars

\* C14: in every reachable state every stored message references a chat that
\* exists in the store, whatever create_chat, delete_chat, create_message and
\* streaming turns did before, a turn on a chat id that does not exist and a
\* turn whose chat is deleted between its two writes included; a turn that
\* finds no chat of its id writes nothing and does not call the provider.
C14_MessagesReferenceChats ==
    /\ \A i \in 1..Len(messages) : messages[i].chat_id \in chats
    /\ \A t \in DOMAIN pc :
          (InLog(t, "user") \/ ProviderInvoked(t)) =>
              (chat_id[t] \in chats \/ ~alone[t])

\* a completed turn whose chat was deleted after its user write: the store
\* holds its AI message and neither the chat nor the user message
C14_Witness ==
    \E t \in DOMAIN pc :
        /\ pc[t] = "done" /\ chat_id[t] = "c1" /\ "c1" \notin chats
        /\ \E i \in 1..Len(messages) : messages[i] = AIRow(t, complete_response[t])
        /\ \A i \in 1..Len(messages) : messages[i] # UserRow(t)

(* ------------------ two streaming turns on the same chat --------------- *)

ConcTurns == {"t1", "t2"}
\* the framing of each of the two requests
ConcProtocol(t) == IF t = "t1" THEN "data" ELSE "text"

\* the user text of each of the two requests
ConcText(t) == IF t = "t1" THEN <<"u">> ELSE <<"v">>

\* two streaming requests for chat c1 have been accepted, each with its own
\* AIService, repository and session (get_ai_service) and its own generator
InitConc ==
    /\ chats = {"c1"}
    /\ messages = <<>>
    /\ pc = [t \in ConcTurns |-> "read"]
    /\ chat_id = [t \in ConcTurns |-> "c1"]
    /\ message_content = [t \in ConcTurns |-> ConcText(t)]
    /\ protocol = [t \in ConcTurns |-> ConcProtocol(t)]
    /\ chat_history = [t \in ConcTurns |-> <<>>]
    /\ complete_response = [t \in ConcTurns |-> <<>>]
    /\ out = [t \in ConcTurns |-> <<>>]
    /\ received = [t \in ConcTurns |-> <<>>]
    /\ H0 = [t \in ConcTurns |-> <<>>]
    /\ alone = [t \in ConcTurns |-> TRUE]
    /\ repeat = [t \in ConcTurns |-> FALSE]
    /\ log = [t \in ConcTurns |-> <<>>]
    /\ session = [t \in ConcTurns |-> "open"]
    /\ now = 0
    /\ created_at = <<>>
    /\ updated_at = [c \in {"c1"} |-> 0]
    /\ title = [c \in {"c1"} |-> NoTitle]
    /\ users = <<>>
    /\ response = NoResponse
    /\ registered = {}

\* the event loop runs one step of either turn
NextConc ==
    \/ \E t \in ConcTurns : ReadHistory(t)
    \/ \E t \in ConcTurns : ReadHistoryFail(t)
    \/ \E t \in ConcTurns : WriteUser(t)
    \/ \E t \in ConcTurns : WriteUserFail(t)
    \/ \E t \in ConcTurns : CallProvider(t)
    \/ \E t \in ConcTurns : CallProviderFail(t)
    \/ \E t \in ConcTurns, ch \in ProviderChunks : RecvChunk(t, ch)
    \/ \E t \in ConcTurns : StreamEnd(t)
    \/ \E t \in ConcTurns : StreamRaise(t)
    \/ \E t \in ConcTurns : Resume(t)
    \/ \E t \in ConcTurns : Cancel(t)
    \/ \E t \in ConcTurns : WriteAI(t)
    \/ \E t \in ConcTurns : WriteAIFail(t)

SpecConc == InitConc /\ [][NextConc]_vars

\* the positions of a turn's user message in the store
OwnUserAt(t) == {i \in 1..Len(messages) : messages[i] = UserRow(t)}

AIRows == SelectSeq(messages, LAMBDA m : m.is_from_ai = 1)

\* C15: under every interleaving of concurrent turns on one chat, each turn's
\* own user message is committed before that turn's own AI message; between
\* messages of different turns no order is kept.
C15_OwnUserBeforeOwnAI ==
    /\ \A t \in DOMAIN pc :
          /\ Cardinality(OwnUserAt(t)) = IF InLog(t, "user") THEN 1 ELSE 0
          /\ InLog(t, "ai") =>
                \E i \in OwnUserAt(t) : \E j \in (i + 1)..Len(messages) :
                    messages[j] = AIRow(t, complete_response[t])
    /\ Len(AIRows) = Cardinality({t \in DOMAIN pc : InLog(t, "ai")})

\* both user messages were stored before either AI message, and the turn that
\* wrote its user message first wrote its AI message last
C15_Witness ==
    /\ Len(messages) = 4
    /\ messages[1] = UserRow("t1")
    /\ messages[2] = UserRow("t2")
    /\ messages[3] = AIRow("t2", complete_response["t2"])
    /\ messages[4] = AIRow("t1", complete_response["t1"])
    /\ complete_response["t1"] # complete_response["t2"]

\* C16: concurrent turns share no mutable state: under every interleaving of
\* their delta arrivals the accumulator, the chunks emitted and the AI message
\* of a turn are built from that turn's own provider deltas only.
C16_OwnDeltasOnly ==
    /\ \A t \in DOMAIN pc :
          /\ InLog(t, "call") => complete_response[t] = Flatten(ContentDeltas(t))
          /\ Len(out[t]) >= Len(ContentDeltas(t))
          /\ Len(out[t]) <= Len(ContentDeltas(t)) + 1
          /\ \A i \in 1..Len(ContentDeltas(t)) :
                ChunkText(t, out[t][i]) = ContentDeltas(t)[i]
          /\ InLog(t, "ai") =>
                \E j \in 1..Len(AIRows) : AIRows[j] = AIRow(t, ReceivedText(t))
    /\ Len(AIRows) = Cardinality({t \in DOMAIN pc : InLog(t, "ai")})

\* both turns completed, each persisted its own text, and the texts differ
C16_Witness ==
    /\ \A t \in DOMAIN pc : pc[t] = "done" /\ Len(ContentDeltas(t)) = 2
    /\ ReceivedText("t1") # ReceivedText("t2")
    /\ \E i, j \in 1..Len(AIRows) :
          /\ i # j
          /\ AIRows[i] = AIRow("t1", ReceivedText("t1"))
          /\ AIRows[j] = AIRow("t2", ReceivedText("t2"))

\* C17: when the provider call fails to start, the failure ends the output
\* sequence as an error: no chunk is emitted, for data framing not even the
\* d: line, no AI message is written, the user message already persisted
\* stays in the store, and no step of the turn is retried.
C17_ProviderStartFailure ==
    \A t \in DOMAIN pc :
        InLog(t, "call_fail") =>
            /\ pc[t] = "error"
            /\ log[t] = <<"read", "user", "call_fail">>
            /\ out[t] = <<>>
            /\ received[t] = <<>>
            /\ \E i \in 1..Len(messages) : messages[i] = UserRow(t)
            /\ alone[t] => ChatMessages(chat_id[t]) = H0[t] \o <<UserRow(t)>>

\* the provider call of a data turn on a chat with history failed to start
C17_Witness ==
    \E t \in DOMAIN pc :
        /\ LastLog(t) = "call_fail" /\ protocol[t] = "data"
        /\ alone[t] /\ H0[t] # <<>>

\* the turn's AI message is in the store
AIPersisted(t) ==
    /\ InLog(t, "ai")
    /\ \E i \in 1..Len(messages) : messages[i] = AIRow(t, complete_response[t])

\* C18 as stated: for data framing the output of a failed turn, a failure of
\* the final AI write included, never contains the d: line, and every stream
\* that contains it belongs to a turn whose AI message was persisted.
C18_Original ==
    \A t \in DOMAIN pc :
        (protocol[t] = "data" /\ pc[t] \in Terminal) =>
            /\ pc[t] = "error" => FinishTags(t) = 0
            /\ FinishTags(t) > 0 => AIPersisted(t)

\* C18 amended: for data framing the d: line is emitted once, as the last
\* chunk, after the history read, the user write, the provider call and the
\* whole provider stream succeeded, and before the AI write; a turn that failed
\* in one of those steps has no d: line in its output, and a turn that ended
\* with the d: line in its output has its AI message persisted unless the AI
\* write failed or the caller went away after the d: line.
C18_FinishEventAfterCleanStream ==
    \A t \in DOMAIN pc :
        protocol[t] = "data" =>
            /\ FinishTags(t) <= 1
            /\ FinishTags(t) = 1 =>
                  /\ IsFinishTag(out[t][Len(out[t])])
                  /\ Before(t, "read", "user") /\ Before(t, "user", "call")
                  /\ Before(t, "call", "eos")
                  /\ \A e \in {"read_fail", "user_fail", "call_fail", "stream_fail"} :
                        ~InLog(t, e)
                  /\ \A i \in 1..Len(log[t]) :
                        log[t][i] \in {"ai", "ai_fail"} =>
                            YieldsBefore(t, i) = Len(out[t])
            /\ (pc[t] \in Terminal /\ FinishTags(t) = 1) =>
                  \/ pc[t] = "done" /\ AIPersisted(t)
                  \/ pc[t] = "error" /\ LastLog(t) = "ai_fail" /\ ~InLog(t, "ai")
                  \/ pc[t] = "cancelled" /\ LastLog(t) = "cancel" /\ ~InLog(t, "ai")

\* the final AI write failed after the d: line was handed to the caller
C18_Witness ==
    \E t \in DOMAIN pc :
        /\ protocol[t] = "data" /\ pc[t] = "error" /\ LastLog(t) = "ai_fail"
        /\ FinishTags(t) = 1 /\ Len(out[t]) = 3
        /\ alone[t] /\ ChatMessages(chat_id[t]) = H0[t] \o <<UserRow(t)>>

(* --------------------------- the store session ------------------------- *)

\* the next step of a turn's generator when the event loop runs it and the
\* caller asks for the next chunk
TurnStep(t) ==
    \/ ReadHistory(t)
    \/ WriteUser(t)
    \/ CallProvider(t)
    \/ \E ch \in ProviderChunks : RecvChunk(t, ch)
    \/ StreamEnd(t)
    \/ Resume(t)
    \/ WriteAI(t)

\* the event loop runs every task that can run
SpecLive == Init /\ [][Next]_vars /\ \A t \in Turns : WF_vars(TurnStep(t))

\* C19: the store session of a turn is scoped to the invocation: acquired for
\* the request and eventually released after the turn ended, by completion,
\* error or cancellation; no session stays open after its turn is over.
C19_SessionReleased ==
    \A t \in Turns : (pc[t] \in Terminal) ~> (session[t] # "open")

\* a turn is over and its session is still open
C19_Witness ==
    \E t \in DOMAIN pc : pc[t] = "done" /\ session[t] = "open"

\* C20: every successful create_message on a chat, a direct CRUD call or
\* either write of a streaming turn, sets the chat's updated_at to a time not
\* earlier than the creation time of the new message, so the updated_at of a
\* chat is at least the creation time of its newest message.
C20_UpdatedAtFollowsNewestMessage ==
    \A i \in 1..Len(messages) :
        messages[i].chat_id \in chats =>
            updated_at[messages[i].chat_id] >= created_at[i]

\* a completed turn on a chat that was created before the clock moved: both of
\* its messages are newer than the chat's updated_at
C20_Witness ==
    \E t \in DOMAIN pc :
        /\ pc[t] = "done" /\ alone[t] /\ chat_id[t] \in chats
        /\ Len(messages) = 2
        /\ ChatMessages(chat_id[t]) = <<UserRow(t), AIRow(t, complete_response[t])>>
        /\ created_at = <<1, 1>>
        /\ updated_at[chat_id[t]] = 0

(* ----------------------- ChatService, every branch --------------------- *)

\* a call that raises before it touches the store
Refuse(op, target, status_code, detail) ==
    /\ response' = HTTPException(op, target, status_code, detail)
    /\ UNCHANGED <<chats, messages, turnVars, now, created_at, updated_at, title,
                   userVars>>

\* ChatService.delete_chat: get_chat found nothing
DeleteChatNotFound(c) ==
    /\ c \notin chats
    /\ Refuse("delete_chat", c, 404, "Chat not found")

\* a plausible slip: the row is inserted without looking the chat up
CreateMessageOrphan(c, content, fromAi) ==
    /\ c \notin chats
    /\ Room >= 1
    /\ messages' = create_message(messages, c, content, fromAi)
    /\ created_at' = stamp(created_at)
    /\ response' = Returned("create_message", c,
                    [chat_id |-> c, content |-> content, is_from_ai |-> fromAi,
                     created_at |-> now])
    /\ UNCHANGED <<chats, turnVars, now, updated_at, title, userVars>>

\* ChatService.create_message: get_chat found nothing
CreateMessageNotFound(c, content, fromAi) ==
    /\ c \notin chats
    /\ Refuse("create_message", c, 404, "Chat not found")

\* ChatService.create_message: message_data carries no chat_id
CreateMessageNoChatId ==
    Refuse("create_message", "None", 400, "Chat ID is required")

\* what get_chat and update_chat return for a chat
ChatBody(c, ti, upd) ==
    [id |-> c, title |-> ShownTitle(ti, c), updated_at |-> upd,
     messages |-> get_messages_by_chat(c, 0, DefaultLimit)]

\* ChatService.get_chat
GetChat(c) ==
    /\ c \in chats
    /\ response' = Returned("get_chat", c, ChatBody(c, title[c], updated_at[c]))
    /\ UNCHANGED <<chats, messages, turnVars, now, created_at, updated_at, title,
                   userVars>>

GetChatNotFound(c) ==
    /\ c \notin chats
    /\ Refuse("get_chat", c, 404, "Chat not found")

\* ChatService.get_chat_messages
GetChatMessages(c, skip, limit) ==
    /\ c \in chats
    /\ response' = Returned("get_chat_messages", c, get_messages_by_chat(c, skip, limit))
    /\ UNCHANGED <<chats, messages, turnVars, now, created_at, updated_at, title,
                   userVars>>

GetChatMessagesNotFound(c, skip, limit) ==
    /\ c \notin chats
    /\ Refuse("get_chat_messages", c, 404, "Chat not found")

\* ChatService.update_chat: setattr(chat, "title", ...), commit, refresh.  The
\* UPDATE is issued when the attribute has changed, and onupdate=func.now()
\* runs with it.  (The repository finds the chat the service has just found,
\* so "Failed to update chat" is not raised.)
UpdateChat(c, ti) ==
    /\ c \in chats
    /\ title' = [title EXCEPT ![c] = ti]
    /\ updated_at' = IF ti # title[c] THEN [updated_at EXCEPT ![c] = now]
                     ELSE updated_at
    /\ response' = Returned("update_chat", c, ChatBody(c, ti, updated_at'[c]))
    /\ UNCHANGED <<chats, messages, turnVars, now, created_at, userVars>>

UpdateChatNotFound(c, ti) ==
    /\ c \notin chats
    /\ Refuse("update_chat", c, 404, "Chat not found")

\* the requests of the CRUD endpoints
Titles == {NoTitle, "A"}
CrudTexts == {[content |-> <<"h">>, is_from_ai |-> TRUE],
              [content |-> <<"k">>, is_from_ai |-> FALSE]}
Skips == {0, 1}
Limits == {1, DefaultLimit}

NextCrud ==
    \/ \E c \in ChatIds : CreateChat(c)
    \/ \E c \in ChatIds : DeleteChat(c)
    \/ \E c \in ChatIds : DeleteChatNotFound(c)
    \/ \E c \in ChatIds, d \in CrudTexts : CrudCreateMessage(c, d.content, d.is_from_ai)
    \/ \E c \in ChatIds, d \in CrudTexts : CreateMessageNotFound(c, d.content, d.is_from_ai)
    \/ CreateMessageNoChatId
    \/ \E c \in ChatIds : GetChat(c)
    \/ \E c \in ChatIds : GetChatNotFound(c)
    \/ \E c \in ChatIds, k \in Skips, n \in Limits : GetChatMessages(c, k, n)
    \/ \E c \in ChatIds, k \in Skips, n \in Limits : GetChatMessagesNotFound(c, k, n)
    \/ \E c \in ChatIds, ti \in Titles : UpdateChat(c, ti)
    \/ \E c \in ChatIds, ti \in Titles : UpdateChatNotFound(c, ti)

SpecCrud == Init /\ [][NextCrud]_vars

\* the rows of the store
storeVars == <<chats, messages, created_at, updated_at, title, users>>

\* the step is a call that was answered: the answer or the store has changed
Answered ==
    \/ response'.op # response.op
    \/ response'.target # response.target
    \/ response'.status # response.status
    \/ storeVars' # storeVars

\* C21: a delete_chat of an existing chat removes the chat and every message
\* that references it, and leaves every other chat and its messages as they
\* were; from then on get_chat and get_chat_messages of that id answer
\* 404 "Chat not found".
C21_DeleteChatCascades ==
    [][\A c \in ChatIds :
        /\ (c \in chats /\ Answered /\ response'.op = "delete_chat"
                /\ response'.target = c) =>
            /\ chats' = chats \ {c}
            /\ SelectRows(messages', c) = <<>>
            /\ \A d \in ChatIds \ {c} : SelectRows(messages', d) = SelectRows(messages, d)
            /\ Len(messages') = Len(messages) - Len(SelectRows(messages, c))
            /\ \A d \in chats \ {c} : title'[d] = title[d] /\ updated_at'[d] = updated_at[d]
        /\ (c \notin chats /\ Answered /\ response'.target = c
                /\ response'.op \in {"get_chat", "get_chat_messages"}) =>
            /\ response'.status = 404
            /\ response'.detail = "Chat not found"
            /\ UNCHANGED storeVars]_vars

\* chat c1 held a message and was deleted while c2 holds one; c1 is asked for
C21_Witness ==
    /\ "c1" \notin chats
    /\ "c2" \in chats
    /\ Len(messages) = 2
    /\ response.op = "get_chat_messages"
    /\ response.target = "c1"
    /\ response.status = 404

\* C29: get_chat, update_chat, delete_chat, create_message and
\* get_chat_messages on a chat id that is not stored fail with
\* 404 "Chat not found" and leave the store as it was.
C29_AbsentChatIs404 ==
    [][\A c \in ChatIds :
        (/\ c \notin chats
         /\ Answered
         /\ response'.target = c
         /\ response'.op \in {"get_chat", "update_chat", "delete_chat",
                             "create_message", "get_chat_messages"}) =>
            /\ response'.status = 404
            /\ response'.detail = "Chat not found"
            /\ UNCHANGED storeVars]_vars

\* a message is refused for a chat that is not stored while another chat
\* holds messages
C29_Witness ==
    /\ response.op = "create_message"
    /\ response.status = 404
    /\ response.target \notin chats
    /\ Len(messages) >= 1

(* ------------------- AuthService, UserService, login ------------------- *)

\* the requests of the user endpoints; "" is a text a caller of the service
\* can pass although the endpoint's schema refuses it
Usernames == {<<"a">>, <<"b">>, <<>>}
Emails == {<<"a", "@", "x">>, <<"b", "@", "x">>, <<>>}
FullNames == {<<"F">>}
Passwords == {<<"p">>, <<"q">>}
UserIds == {1, 2, 3}

\* hashlib.sha256(password.encode()).hexdigest()
sha256(password) ==
    CASE password = <<"p">> ->
           <<"1", "4", "8", "d", "e", "9", "c", "5", "a", "7", "a", "4", "4",
             "d", "1", "9", "e", "5", "6", "c", "d", "9", "a", "e", "1", "a", "5",
             "5", "4", "b", "f", "6", "7", "8", "4", "7", "a", "f", "b", "0", "c",
             "5", "8", "f", "6", "e", "1", "2", "f", "a", "2", "9", "a", "c", "7",
             "d", "d", "f", "c", "a", "9", "9", "4", "0">>
      [] password = <<"q">> ->
           <<"8", "e", "3", "5", "c", "2", "c", "d", "3", "b", "f", "6", "6",
             "4", "1", "b", "d", "b", "0", "e", "2", "0", "5", "0", "b", "7", "6",
             "9", "3", "2", "c", "b", "b", "2", "e", "6", "0", "3", "4", "a", "0",
             "d", "d", "a", "c", "c", "1", "d", "9", "b", "e", "a", "8", "2", "a",
             "6", "b", "a", "5", "7", "f", "7", "c", "f">>

\* the row User(**user_data) after add, commit and refresh: the database
\* gives it the next id, and is_active takes the column's default
NewUser(rows, user_data) ==
    [id |-> Len(rows) + 1,
     username |-> user_data.username,
     email |-> user_data.email,
     full_name |-> user_data.full_name,
     hashed_password |-> user_data.hashed_password,
     is_active |-> TRUE]

\* a query that found no row, and a call that returns None
None == [none |-> TRUE]

\* Query.first() of db.query(User).filter(...): the first of the rows that
\* match, whose positions are hits, or None
First(rows, hits) ==
    IF hits = {} THEN None
    ELSE rows[CHOOSE i \in hits : \A j \in hits : i <= j]

\* a plausible slip: the id is taken for the position of the row, counted from 0
get_user_by_offset(rows, user_id) ==
    IF user_id + 1 \in 1..Len(rows) THEN rows[user_id + 1] ELSE None

\* UserRepository.get_user
get_user(rows, user_id) ==
    First(rows, {i \in 1..Len(rows) : rows[i].id = user_id})

\* UserRepository.get_user_by_email
get_user_by_email(rows, email) ==
    First(rows, {i \in 1..Len(rows) : rows[i].email = email})

\* UserRepository.get_user_by_username
get_user_by_username(rows, username) ==
    First(rows, {i \in 1..Len(rows) : rows[i].username = username})

\* a plausible slip: the row is returned as it is stored
user_dict_row(user) == user

\* "Return user without sensitive information": the dict the three methods build
user_dict(user) ==
    [id |-> user.id, username |-> user.username, email |-> user.email,
     full_name |-> user.full_name, is_active |-> user.is_active]

\* a plausible slip: the stored digest is compared with the password itself
authenticate_user_plain(rows, username, password) ==
    LET user == get_user_by_username(rows, username)
    IN  IF user = None THEN None
        ELSE IF user.hashed_password # password THEN None
        ELSE user_dict(user)

\* AuthService.authenticate_user
authenticate_user(rows, username, password) ==
    LET user == get_user_by_username(rows, username)
    IN  IF user = None THEN None
        ELSE IF user.hashed_password # sha256(password) THEN None
        ELSE user_dict(user)

\* a plausible slip: only the email is looked up before the insert
RegisterUserEmailOnly(username, email, full_name, password) ==
    LET req == [username |-> username, email |-> email, full_name |-> full_name,
                password |-> password]
        user == NewUser(users, [username |-> username, email |-> email,
                                full_name |-> full_name,
                                hashed_password |-> sha256(password)])
    IN  /\ IF email = <<>>
           THEN /\ response' = HTTPException("register_user", req, 400, "Email is required")
                /\ UNCHANGED userVars
           ELSE IF get_user_by_email(users, email) # None
           THEN /\ response' = HTTPException("register_user", req, 400, "Email already registered")
                /\ UNCHANGED userVars
           ELSE IF username = <<>>
           THEN /\ response' = HTTPException("register_user", req, 400, "Username is required")
                /\ UNCHANGED userVars
           ELSE /\ users' = Append(users, user)
                /\ response' = Returned("register_user", req, user_dict(user))
                /\ registered' = registered \cup {[request |-> req, body |-> user_dict(user)]}
        /\ UNCHANGED <<chats, messages, turnVars, now, created_at, updated_at, title>>

\* AuthService.register_user
RegisterUser(username, email, full_name, password) ==
    LET req == [username |-> username, email |-> email, full_name |-> full_name,
                password |-> password]
        user == NewUser(users, [username |-> username, email |-> email,
                                full_name |-> full_name,
                                hashed_password |-> sha256(password)])
    IN  /\ IF email = <<>>
           THEN /\ response' = HTTPException("register_user", req, 400, "Email is required")
                /\ UNCHANGED userVars
           ELSE IF get_user_by_email(users, email) # None
           THEN /\ response' = HTTPException("register_user", req, 400, "Email already registered")
                /\ UNCHANGED userVars
           ELSE IF username = <<>>
           THEN /\ response' = HTTPException("register_user", req, 400, "Username is required")
                /\ UNCHANGED userVars
           ELSE IF get_user_by_username(users, username) # None
           THEN /\ response' = HTTPException("register_user", req, 400, "Username already taken")
                /\ UNCHANGED userVars
           ELSE /\ users' = Append(users, user)
                /\ response' = Returned("register_user", req, user_dict(user))
                /\ registered' = registered \cup {[request |-> req, body |-> user_dict(user)]}
        /\ UNCHANGED <<chats, messages, turnVars, now, created_at, updated_at, title>>

\* AuthService.authenticate_user, called by itself
AuthenticateUser(username, password) ==
    /\ response' = Returned("authenticate_user",
                    [username |-> username, password |-> password],
                    authenticate_user(users, username, password))
    /\ UNCHANGED <<chats, messages, turnVars, now, created_at, updated_at, title,
                   userVars>>

\* "dummy_token_for_"
TokenPrefix ==
    <<"d", "u", "m", "m", "y", "_", "t", "o", "k", "e", "n", "_", "f", "o", "r", "_">>

\* POST /login/
Login(username, password) ==
    LET req == [username |-> username, password |-> password]
        user == authenticate_user(users, username, password)
    IN  /\ response' =
              IF user = None
              THEN HTTPException("login", req, 401, "Incorrect username or password")
              ELSE Returned("login", req,
                       [access_token |-> TokenPrefix \o user.username,
                        token_type |-> "bearer"])
        /\ UNCHANGED <<chats, messages, turnVars, now, created_at, updated_at, title,
                       userVars>>

\* UserService.get_user_profile
GetUserProfile(user_id) ==
    LET user == get_user(users, user_id)
    IN  /\ response' =
              IF user = None
              THEN HTTPException("get_user_profile", user_id, 404, "User not found")
              ELSE Returned("get_user_profile", user_id, user_dict(user))
        /\ UNCHANGED <<chats, messages, turnVars, now, created_at, updated_at, title,
                       userVars>>

NextUsers ==
    \/ \E u \in Usernames, e \in Emails, f \in FullNames, p \in Passwords :
            RegisterUser(u, e, f, p)
    \/ \E u \in Usernames, p \in Passwords : AuthenticateUser(u, p)
    \/ \E u \in Usernames, p \in Passwords : Login(u, p)
    \/ \E i \in UserIds : GetUserProfile(i)

SpecUsers == Init /\ [][NextUsers]_vars

\* the users are stored without two rows sharing an email or a username
UniqueUsers(rows) ==
    \A i, j \in 1..Len(rows) :
        i # j => rows[i].email # rows[j].email /\ rows[i].username # rows[j].username

\* a registration so far was made with this username and a password of the
\* same digest
Enrolled(req) ==
    \E r \in registered :
        /\ r.request.username = req.username
        /\ sha256(r.request.password) = sha256(req.password)

\* C22: what register_user, authenticate_user and get_user_profile return has
\* exactly the fields id, username, email, full_name and is_active, carries
\* the username, email and full_name that were submitted at registration, and
\* holds neither the password nor its digest.
C22_NoPasswordInResults ==
    (/\ response.op \in {"register_user", "authenticate_user", "get_user_profile"}
     /\ response.status = 200
     /\ response.body # None) =>
        LET body == response.body
        IN  /\ DOMAIN body = {"id", "username", "email", "full_name", "is_active"}
            /\ \A f \in {"username", "email", "full_name"} :
                   \A p \in Passwords : body[f] # p /\ body[f] # sha256(p)
            /\ \E r \in registered :
                   /\ r.body.id = body.id
                   /\ body.username = r.request.username
                   /\ body.email = r.request.email
                   /\ body.full_name = r.request.full_name
            /\ response.op = "register_user" =>
                   /\ body.username = response.target.username
                   /\ body.email = response.target.email
                   /\ body.full_name = response.target.full_name

\* the second registered user authenticates and gets their record
C22_Witness ==
    /\ Len(users) = 2
    /\ response.op = "authenticate_user"
    /\ response.body # None
    /\ response.body.id = 2
    /\ response.target.password = <<"q">>

\* C23: get_user_profile with the id that a registration returned yields the
\* id, username and email that the registration returned; with an id that no
\* user has it fails with 404 "User not found".
C23_ProfileMatchesRegistration ==
    response.op = "get_user_profile" =>
        /\ \A r \in registered :
               r.body.id = response.target =>
                   /\ response.status = 200
                   /\ response.body.id = r.body.id
                   /\ response.body.username = r.body.username
                   /\ response.body.email = r.body.email
        /\ (\A i \in 1..Len(users) : users[i].id # response.target) =>
               /\ response.status = 404
               /\ response.detail = "User not found"

\* the profile of the second of two registered users is read
C23_Witness ==
    /\ Len(users) = 2
    /\ response.op = "get_user_profile"
    /\ response.target = 2
    /\ response.status = 200
    /\ response.body.username = users[2].username

\* C27: no two stored users share an email or a username; a registration
\* with a stored email is refused with 400 "Email already registered", one
\* with a new email and a stored username with 400 "Username already taken",
\* and a refused registration leaves the stored users as they were.
C27_UniqueEmailAndUsername ==
    [][/\ UniqueUsers(users')
       /\ response'.op = "register_user" =>
            LET req == response'.target
                emailStored == \E i \in 1..Len(users) : users[i].email = req.email
                nameStored == \E i \in 1..Len(users) : users[i].username = req.username
            IN  /\ (req.email # <<>> /\ emailStored) =>
                       /\ response'.status = 400
                       /\ response'.detail = "Email already registered"
                /\ (req.email # <<>> /\ ~emailStored /\ req.username # <<>> /\ nameStored) =>
                       /\ response'.status = 400
                       /\ response'.detail = "Username already taken"
                /\ response'.status # 200 => users' = users]_vars

\* with one user stored, a registration with a new email and the stored
\* username has been refused
C27_Witness ==
    /\ Len(users) = 1
    /\ response.op = "register_user"
    /\ response.detail = "Username already taken"
    /\ response.target.email # users[1].email
    /\ response.target.username = users[1].username

\* C28: authenticate_user returns the user's record exactly when the username
\* is stored and the digest of the password equals the stored digest, which is
\* the digest of the password given at registration, and None otherwise; it
\* changes nothing.  login answers 401 when it is None and otherwise the token
\* "dummy_token_for_" + username of type "bearer".
C28_AuthenticateAndLogin ==
    [][/\ response'.op = "authenticate_user" =>
            /\ Enrolled(response'.target) <=> response'.body # None
            /\ Enrolled(response'.target) =>
                   \E r \in registered :
                       /\ r.request.username = response'.target.username
                       /\ response'.body = r.body
            /\ UNCHANGED storeVars
       /\ response'.op = "login" =>
            /\ ~Enrolled(response'.target) => response'.status = 401
            /\ Enrolled(response'.target) =>
                   /\ response'.status = 200
                   /\ response'.body.access_token =
                          TokenPrefix \o response'.target.username
                   /\ response'.body.token_type = "bearer"
            /\ UNCHANGED storeVars]_vars

\* two users are stored and the second one has logged in with their password
C28_Witness ==
    /\ Len(users) = 2
    /\ response.op = "login"
    /\ response.status = 200
    /\ response.target.username = users[2].username
    /\ response.body.access_token = TokenPrefix \o users[2].username

(* ------------------- the AI write and the end of stream ---------------- *)

EmitChunks == ProviderChunks \cup {[choices |-> TRUE, content |-> <<>>]}
EmitProtocols == {"text", "data"}

NextEmit ==
    \/ \E t \in Turns, c \in ChatIds, m \in UserTexts, p \in EmitProtocols : StartTurn(t, c, m, p)
    \/ \E t \in Turns : ReadHistory(t)
    \/ \E t \in Turns : WriteUser(t)
    \/ \E t \in Turns : CallProvider(t)
    \/ \E t \in Turns, ch \in EmitChunks : RecvChunk(t, ch)
    \/ \E t \in Turns : StreamEnd(t)
    \/ \E t \in Turns : StreamRaise(t)
    \/ \E t \in Turns : Resume(t)
    \/ \E t \in Turns : Cancel(t)
    \/ \E t \in Turns : WriteAI(t)

SpecEmit == Init /\ [][NextEmit]_vars

\* C25: with framing text or data a provider chunk is asked for only when the
\* chunk of every delta before it has been handed to the caller; a chunk with
\* non-empty content yields exactly one output chunk, which carries that
\* content and comes after the chunks of the earlier deltas, and extends the
\* accumulator by it; a chunk with no choices or with empty content yields
\* nothing and leaves the accumulator as it is.
C25_IncrementalOrderedEmission ==
    [][\A t \in DOMAIN pc :
        Len(received'[t]) = Len(received[t]) + 1 =>
            LET ch == received'[t][Len(received'[t])]
            IN  /\ Framed(t)
                /\ pc[t] = "loop"
                /\ Len(out[t]) = Len(ContentDeltas(t))
                /\ \A i \in 1..Len(out[t]) : ChunkText(t, out[t][i]) = ContentDeltas(t)[i]
                /\ IF ch.choices /\ ch.content # <<>>
                   THEN /\ Len(out'[t]) = Len(out[t]) + 1
                        /\ SubSeq(out'[t], 1, Len(out[t])) = out[t]
                        /\ ChunkText(t, out'[t][Len(out'[t])]) = ch.content
                        /\ complete_response'[t] = complete_response[t] \o ch.content
                        /\ pc'[t] = "yielded"
                   ELSE /\ out'[t] = out[t]
                        /\ complete_response'[t] = complete_response[t]]_vars

\* a chunk with empty content came first and yielded nothing, the delta after
\* it yielded the first output chunk, which the caller now holds
C25_Witness ==
    \E t \in DOMAIN pc :
        /\ pc[t] = "yielded"
        /\ Len(received[t]) = 2
        /\ received[t][1] = [choices |-> TRUE, content |-> <<>>]
        /\ received[t][2].content # <<>>
        /\ Len(out[t]) = 1

(* ------------------- POST /chat and process_chat_stream ---------------- *)

\* ChatRequest.messages: lists of ClientMessage (role, content)
ClientLists ==
    LET U(x) == [role |-> "user", content |-> <<x>>]
        A(x) == [role |-> "assistant", content |-> <<x>>]
    IN  {<<>>, <<U("u")>>, <<A("a")>>, <<U("x"), A("a")>>, <<A("a"), U("u")>>,
         <<U("x"), U("u")>>}

ChatProtocols == {"data"}
ChatTargets == {"c1"}

\* client_messages and client_messages[-1]["role"] == "user"
EndsWithUser(msgs) == msgs # <<>> /\ msgs[Len(msgs)].role = "user"

\* "No valid user messages found"
NoValidMessages ==
    <<"N", "o", " ", "v", "a", "l", "i", "d", " ", "u", "s", "e", "r", " ",
      "m", "e", "s", "s", "a", "g", "e", "s", " ", "f", "o", "u", "n", "d">>

\* a plausible slip: the user text is taken from the first message of the list
ProcessChatStreamFirst(t, msgs, c, p) ==
    IF EndsWithUser(msgs)
    THEN BeginTurn(t, c, msgs[1].content, p)
    ELSE /\ pc[t] \in {"idle"} \cup Terminal
         /\ pc' = [pc EXCEPT ![t] = "done"]
         /\ out' = [out EXCEPT ![t] = <<NoValidMessages>>]
         /\ log' = [log EXCEPT ![t] = <<"no_user_message">>]
         /\ chat_id' = [chat_id EXCEPT ![t] = c]
         /\ protocol' = [protocol EXCEPT ![t] = p]
         /\ message_content' = [message_content EXCEPT ![t] = <<>>]
         /\ chat_history' = [chat_history EXCEPT ![t] = <<>>]
         /\ complete_response' = [complete_response EXCEPT ![t] = <<>>]
         /\ received' = [received EXCEPT ![t] = <<>>]
         /\ H0' = [H0 EXCEPT ![t] = <<>>]
         /\ alone' = [alone EXCEPT ![t] = TRUE]
         /\ repeat' = [repeat EXCEPT ![t] = FALSE]
         /\ session' = [session EXCEPT ![t] = "open"]
         /\ UNCHANGED <<chats, messages, now, created_at, updated_at, title, userVars>>

\* AIService.process_chat_stream, iterated by its caller: the turn of
\* stream_ai_response on the content of the last message, or the one chunk
\* "No valid user messages found" and the end of the generator
ProcessChatStream(t, msgs, c, p) ==
    IF EndsWithUser(msgs)
    THEN BeginTurn(t, c, msgs[Len(msgs)].content, p)
    ELSE /\ pc[t] \in {"idle"} \cup Terminal
         /\ pc' = [pc EXCEPT ![t] = "done"]
         /\ out' = [out EXCEPT ![t] = <<NoValidMessages>>]
         /\ log' = [log EXCEPT ![t] = <<"no_user_message">>]
         /\ chat_id' = [chat_id EXCEPT ![t] = c]
         /\ protocol' = [protocol EXCEPT ![t] = p]
         /\ message_content' = [message_content EXCEPT ![t] = <<>>]
         /\ chat_history' = [chat_history EXCEPT ![t] = <<>>]
         /\ complete_response' = [complete_response EXCEPT ![t] = <<>>]
         /\ received' = [received EXCEPT ![t] = <<>>]
         /\ H0' = [H0 EXCEPT ![t] = <<>>]
         /\ alone' = [alone EXCEPT ![t] = TRUE]
         /\ repeat' = [repeat EXCEPT ![t] = FALSE]
         /\ session' = [session EXCEPT ![t] = "open"]
         /\ UNCHANGED <<chats, messages, now, created_at, updated_at, title, userVars>>

\* process_chat_stream called by itself
DirectProcessChatStream(t, msgs, c, p) ==
    /\ ProcessChatStream(t, msgs, c, p)
    /\ response' = Returned("process_chat_stream", c, [messages |-> msgs, turn |-> t])

\* POST /chat: 400 unless the list ends with a user message; otherwise a
\* StreamingResponse over process_chat_stream(client_messages, chat_id, protocol)
StreamChat(t, msgs, c, p) ==
    IF msgs = <<>> \/ msgs[Len(msgs)].role # "user"
    THEN /\ response' = [op |-> "stream_chat", target |-> c, status |-> 400,
                         detail |-> "Last message must be from the user",
                         body |-> [messages |-> msgs, turn |-> t]]
         /\ UNCHANGED <<chats, messages, turnVars, now, created_at, updated_at,
                        title, userVars>>
    ELSE /\ ProcessChatStream(t, msgs, c, p)
         /\ response' = Returned("stream_chat", c, [messages |-> msgs, turn |-> t])

NextChat ==
    \/ \E t \in Turns, l \in ClientLists, c \in ChatTargets, p \in ChatProtocols :
            StreamChat(t, l, c, p)
    \/ \E t \in Turns, l \in ClientLists, c \in ChatTargets, p \in ChatProtocols :
            DirectProcessChatStream(t, l, c, p)
    \/ \E t \in Turns : ReadHistory(t)
    \/ \E t \in Turns : WriteUser(t)
    \/ \E t \in Turns : CallProvider(t)
    \/ \E t \in Turns, ch \in StoreChunks : RecvChunk(t, ch)
    \/ \E t \in Turns : StreamEnd(t)
    \/ \E t \in Turns : Resume(t)
    \/ \E t \in Turns : Cancel(t)
    \/ \E t \in Turns : WriteAI(t)

SpecChat == Init /\ [][NextChat]_vars

\* the step answers a request to POST /chat for turn t
ChatAnswered(t) ==
    /\ response'.op = "stream_chat"
    /\ response'.body.turn = t
    /\ \/ response.op # "stream_chat"
       \/ response.status # response'.status
       \/ response.target # response'.target
       \/ response.body # response'.body
       \/ (pc'[t] = "read" /\ pc[t] # "read")

\* C26: POST /chat answers 400 to an empty list and to a list whose last
\* message is not the user's, and then nothing is written and no turn, so no
\* provider call, is started; an accepted request starts one streaming turn
\* whose user text is the content of the last message; process_chat_stream
\* called with a list that does not end in a user message yields the one
\* chunk "No valid user messages found" and writes nothing.
C26_ChatRequestValidation ==
    [][\A t \in DOMAIN pc :
        /\ ChatAnswered(t) =>
             LET msgs == response'.body.messages
             IN  IF msgs = <<>> \/ msgs[Len(msgs)].role # "user"
                 THEN /\ response'.status = 400
                      /\ UNCHANGED <<storeVars, turnVars>>
                 ELSE /\ response'.status = 200
                      /\ pc'[t] = "read"
                      /\ log'[t] = <<>>
                      /\ chat_id'[t] = response'.target
                      /\ message_content'[t] = msgs[Len(msgs)].content
                      /\ UNCHANGED storeVars
        /\ log'[t] = <<"no_user_message">> =>
             /\ out'[t] = <<NoValidMessages>>
             /\ pc'[t] = "done"
             /\ UNCHANGED storeVars]_vars

\* a request with the user messages "x" and "u" was accepted and its turn has
\* completed: the chat holds the user message "u" and the AI message
C26_Witness ==
    \E t \in DOMAIN pc :
        /\ response.op = "stream_chat"
        /\ response.status = 200
        /\ Len(response.body.messages) = 2
        /\ response.body.messages[1].role = "user"
        /\ pc[t] = "done" /\ InLog(t, "ai")
        /\ message_content[t] = <<"u">>
        /\ Len(messages) = 2
        /\ messages[1] = UserRow(t)

====
